---- MODULE Spec2Model ----
(***************************************************************************)
(* Verification model of mpolluxork/yearrecap: the change detector         *)
(* (incremental_scan.py), the checkpoint manager (checkpoint.py), the date  *)
(* resolver (utils.py), day assignment (assign_media.py,                    *)
(* regenerate_month.py) and the resumable pipeline                          *)
(* (generate_recap_optimized.py, generate_optimized.py).                    *)
(*                                                                         *)
(* Each component has its own specification over its own variables; the    *)
(* variables of the other components stay at their idle value.             *)
(***************************************************************************)
EXTENDS Integers, Sequences, FiniteSets, TLC

VARIABLES
    \* incremental_scan.detect_changes: its two arguments and its result
    current_files, previous_scan, diff_result,
    \* checkpoint.CheckpointManager: self.checkpoint_data of the live manager,
    \* the content of CHECKPOINT_FILE on disk, and the last two calls made
    checkpoint_data, checkpoint_file, ckpt_last, ckpt_prev,
    \* utils.extract_date_from_filename: its argument and its result
    fn_filename, fn_result,
    \* utils.get_media_date: the file it is called on and its result
    media_file, date_result,
    \* the input folder (a set of files), the assignment store
    \* media_assignment.json (None while the file does not exist) and what the
    \* last rescan_month_files returned
    input_folder, assignment_store, rescan_result,
    \* the running program: its position, the month of generate_optimized's
    \* loop, its arguments, locals and what it has done so far; the scan cache
    \* media_scan_cache.json and the months whose month output file exists
    pc, loop_month, run, scan_cache, month_outputs,
    \* whether CHECKPOINT_FILE can be written at the moment
    disk,
    \* the clip files of PROCESSED_FOLDER and the locals of the
    \* generate_month_video under way
    processed_folder, render,
    \* what is in the clip files that process_media_file wrote: the media file
    \* the clip was rendered from, whether it went through normalize_clip and the
    \* date caption drawn on it
    clip_content,
    \* the ffmpeg process of the compile_final_video under way, its two pipes,
    \* and the two threads that read them
    concat

diffVars == <<current_files, previous_scan, diff_result>>
ckptVars == <<checkpoint_data, checkpoint_file>>
ckptLog == <<ckpt_last, ckpt_prev>>
fnVars == <<fn_filename, fn_result>>
dateVars == <<media_file, date_result>>
assignVars == <<input_folder, assignment_store, rescan_result>>
pipeVars == <<pc, loop_month, run, scan_cache, month_outputs>>
clipVars == <<processed_folder, render, clip_content>>

vars == <<diffVars, ckptVars, ckptLog, fnVars, dateVars, assignVars, pipeVars, disk, concat,
          clipVars>>

\* What the actions of one component leave alone: the other components.
outsideDiff == <<ckptVars, ckptLog, fnVars, dateVars, assignVars, pipeVars, disk, concat, clipVars>>
outsideCkpt == <<diffVars, fnVars, dateVars, assignVars, pipeVars, disk, concat, clipVars>>
outsideFn == <<diffVars, ckptVars, ckptLog, dateVars, assignVars, pipeVars, disk, concat, clipVars>>
outsideDate == <<diffVars, ckptVars, ckptLog, fnVars, assignVars, pipeVars, disk, concat, clipVars>>
outsideAssign == <<diffVars, ckptVars, ckptLog, fnVars, dateVars, pipeVars, disk, concat, clipVars>>
outsideRun == <<diffVars, ckptLog, fnVars, dateVars, rescan_result, disk, concat, processed_folder,
                clip_content>>
outsidePipe == <<outsideRun, render>>

\* Python's None (also: a missing file, a call not made yet) is the empty tuple
\* and a present value v is the one-element tuple Some(v).
None == <<>>
Some(v) == <<v>>
Val(o) == o[1]

(***************************************************************************)
(* Checkpoint manager: checkpoint.py                                       *)
(***************************************************************************)

\* range(1, 13): the month numbers of generate_optimized's loop.
NumMonths == 12
\* Bound of the month numbers handed to the checkpoint calls of SpecCkpt.
MaxCkptMonth == 3
CkptMonths == 1..MaxCkptMonth

\* x in list
InSeq(x, q) == \E i \in 1..Len(q) : q[i] = x

\* list.sort() of a list of numbers: insertion of each element in turn.
RECURSIVE InsertSorted(_, _)
InsertSorted(x, q) ==
    IF q = <<>> THEN <<x>>
    ELSE IF x < Head(q) THEN <<x>> \o q
    ELSE <<Head(q)>> \o InsertSorted(x, Tail(q))

RECURSIVE ListSort(_)
ListSort(q) == IF q = <<>> THEN <<>> ELSE InsertSorted(Head(q), ListSort(Tail(q)))

\* list.remove(x): the list without its first x.
RECURSIVE RemoveFirst(_, _)
RemoveFirst(x, q) ==
    IF q = <<>> THEN <<>>
    ELSE IF Head(q) = x THEN Tail(q)
    ELSE <<Head(q)>> \o RemoveFirst(x, Tail(q))

\* _create_empty_checkpoint. last_update, a time stamp nothing reads, is left out.
create_empty_checkpoint ==
    [media_scan |-> FALSE, media_assignment |-> FALSE,
     months_processed |-> <<>>, completed |-> FALSE]

\* json.dump(self.checkpoint_data): the text of the file, here the tuple of the
\* values in the order the JSON object lists them.
JsonDumpCheckpoint(data) ==
    <<data.media_scan, data.media_assignment, data.months_processed, data.completed>>

\* json.load of that text.
JsonLoadCheckpoint(text) ==
    [media_scan |-> text[1], media_assignment |-> text[2],
     months_processed |-> text[3], completed |-> text[4]]

\* What a write that failed after open(file, 'w') leaves: a text that is no
\* JSON document.
TruncatedText == <<>>

\* CheckpointManager._load: the empty checkpoint when the file is missing and
\* when json.load raises (the except clause).
load_checkpoint(file) ==
    IF file = None THEN create_empty_checkpoint
    ELSE IF Val(file) = TruncatedText THEN create_empty_checkpoint
    ELSE JsonLoadCheckpoint(Val(file))

\* A manager is its checkpoint_data and the file it writes; raised tells
\* whether a call on it ended with an exception.
Manager(data, file) == [data |-> data, file |-> file, raised |-> FALSE]

\* open(checkpoint_file, 'w') and json.dump on a disk in the state d: the file
\* afterwards and whether an exception was raised. A denied open leaves the
\* file alone, a write that fails leaves it truncated.
write_checkpoint(data, file, d) ==
    IF d = "ok" THEN <<Some(JsonDumpCheckpoint(data)), FALSE>>
    ELSE IF d = "denied" THEN <<file, TRUE>>
    ELSE <<Some(TruncatedText), TRUE>>

\* A buggy save without the try: the exception of the write leaves the call.
save_unguarded(mgr) ==
    [mgr EXCEPT !.file = write_checkpoint(mgr.data, mgr.file, disk)[1],
                !.raised = @ \/ write_checkpoint(mgr.data, mgr.file, disk)[2]]

\* CheckpointManager.save: an exception of the write is logged and swallowed.
save(mgr) == [mgr EXCEPT !.file = write_checkpoint(mgr.data, mgr.file, disk)[1]]

\* CheckpointManager.mark_step_complete
mark_step_complete(mgr, step_name) ==
    IF step_name = "media_scan"
    THEN save([mgr EXCEPT !.data.media_scan = TRUE])
    ELSE IF step_name = "media_assignment"
    THEN save([mgr EXCEPT !.data.media_assignment = TRUE])
    ELSE mgr

\* A buggy mark_month_complete that changes the list and does not save.
mark_month_complete_unsaved(mgr, month) ==
    LET months == mgr.data.months_processed
    IN  IF ~InSeq(month, months)
        THEN [mgr EXCEPT !.data.months_processed = ListSort(Append(months, month))]
        ELSE mgr

\* A buggy mark_month_complete that records nothing.
mark_month_complete_forgotten(mgr, month) == mgr

\* A buggy mark_month_complete that appends and does not sort.
mark_month_complete_unsorted(mgr, month) ==
    LET months == mgr.data.months_processed
    IN  IF ~InSeq(month, months)
        THEN save([mgr EXCEPT !.data.months_processed = Append(months, month)])
        ELSE mgr

\* CheckpointManager.mark_month_complete
mark_month_complete(mgr, month) ==
    LET months == mgr.data.months_processed
    IN  IF ~InSeq(month, months)
        THEN save([mgr EXCEPT !.data.months_processed =
                                  ListSort(Append(months, month))])
        ELSE mgr

\* CheckpointManager.is_step_complete
is_step_complete(data, step_name) ==
    IF step_name = "media_scan" THEN data.media_scan
    ELSE IF step_name = "media_assignment" THEN data.media_assignment
    ELSE FALSE

\* CheckpointManager.is_month_complete
is_month_complete(data, month) == InSeq(month, data.months_processed)

\* CheckpointManager.invalidate_month
invalidate_month(mgr, month) ==
    LET months == mgr.data.months_processed
    IN  IF InSeq(month, months)
        THEN save([mgr EXCEPT !.data.months_processed = RemoveFirst(month, months)])
        ELSE mgr

\* CheckpointManager.mark_all_complete
mark_all_complete(mgr) == save([mgr EXCEPT !.data.completed = TRUE])

\* CheckpointManager.is_complete
is_complete(data) == data.completed

\* CheckpointManager.clear: the file, if there is one, is removed.
clear(mgr) == Manager(create_empty_checkpoint, None)

\* CheckpointManager.should_resume
should_resume(data) ==
    IF data.completed THEN FALSE
    ELSE \/ data.media_scan
         \/ data.media_assignment
         \/ Len(data.months_processed) > 0

\* The manager of the state.
Mgr == Manager(checkpoint_data, checkpoint_file)

SetMgr(mgr) ==
    /\ checkpoint_data' = mgr.data
    /\ checkpoint_file' = mgr.file

Logged(name, arg) ==
    /\ ckpt_last' = <<name, arg>>
    /\ ckpt_prev' = ckpt_last
    /\ UNCHANGED outsideCkpt

\* A call that leaves the manager mgr: it returned or it raised.
Called(name, arg, mgr) ==
    /\ SetMgr(mgr)
    /\ Logged(IF mgr.raised THEN "raised" ELSE name, arg)

\* No checkpoint file yet, and a manager constructed on it.
InitCkpt ==
    /\ checkpoint_file = None
    /\ checkpoint_data = load_checkpoint(None)
    /\ ckpt_last = <<"start", 0>>
    /\ ckpt_prev = <<"start", 0>>

IdleCkpt ==
    /\ checkpoint_file = None
    /\ checkpoint_data = create_empty_checkpoint

IdleCkptLog ==
    /\ ckpt_last = <<"start", 0>>
    /\ ckpt_prev = <<"start", 0>>

\* The step names the callers pass, and one that is no key of steps_completed.
StepNames == {"media_scan", "media_assignment", "unknown_step"}

MarkStepComplete(step_name) ==
    /\ Called(step_name, 0, mark_step_complete(Mgr, step_name))

MarkMonthComplete(month) ==
    /\ Called("mark_month_complete", month, mark_month_complete(Mgr, month))

InvalidateMonth(month) ==
    /\ Called("invalidate_month", month, invalidate_month(Mgr, month))

MarkAllComplete ==
    /\ Called("mark_all_complete", 0, mark_all_complete(Mgr))

Clear ==
    /\ Called("clear", 0, clear(Mgr))

\* CheckpointManager(CHECKPOINT_FILE): a new manager on the same file.
NewManager ==
    /\ checkpoint_data' = load_checkpoint(checkpoint_file)
    /\ UNCHANGED checkpoint_file
    /\ Logged("new_manager", 0)

NextCkpt ==
    \/ \E step_name \in StepNames : MarkStepComplete(step_name)
    \/ \E month \in CkptMonths : MarkMonthComplete(month)
    \/ \E month \in CkptMonths : InvalidateMonth(month)
    \/ MarkAllComplete
    \/ Clear
    \/ NewManager

\* The states of the disk under CHECKPOINT_FILE: writable, open() denied, or
\* failing in the middle of a write.
DiskStates == {"ok", "denied", "full"}

IdleDisk == disk = "ok"

\* The disk changes its state.
DiskChanges ==
    /\ \E d \in DiskStates \ {disk} : disk' = d
    /\ UNCHANGED <<ckptVars, ckptLog, diffVars, fnVars, dateVars, assignVars, pipeVars,
                   clipVars, concat>>

\* Bound of the month numbers of the calls made on a failing disk.
MaxIOMonth == 2

\* The calls of one manager that write the checkpoint, on a disk that can fail.
NextCkptIO ==
    \/ \E step_name \in StepNames : MarkStepComplete(step_name)
    \/ \E month \in 1..MaxIOMonth : MarkMonthComplete(month)
    \/ \E month \in 1..MaxIOMonth : InvalidateMonth(month)
    \/ MarkAllComplete
    \/ DiskChanges

(***************************************************************************)
(* Dates and filename date extraction: utils.py                            *)
(***************************************************************************)

\* config.TARGET_YEAR
TARGET_YEAR == 2025
\* The sanity range of extract_date_from_filename: 2000 <= year <= 2030.
MinPlausibleYear == 2000
MaxPlausibleYear == 2030

\* A datetime is <<year, month, day, hour, minute, second>>; a filename is the
\* sequence of its characters.
DateTime(y, mo, d, h, mi, sec) == <<y, mo, d, h, mi, sec>>
Year(dt) == dt[1]
Month(dt) == dt[2]
Day(dt) == dt[3]

\* datetime < datetime: chronological order.
RECURSIVE TupleLess(_, _)
TupleLess(a, b) ==
    IF a = <<>> \/ b = <<>> THEN FALSE
    ELSE IF Head(a) # Head(b) THEN Head(a) < Head(b)
    ELSE TupleLess(Tail(a), Tail(b))

DtLeq(a, b) == a = b \/ TupleLess(a, b)

Digits == {"0", "1", "2", "3", "4", "5", "6", "7", "8", "9"}

DigitVal(c) ==
    CASE c = "0" -> 0 [] c = "1" -> 1 [] c = "2" -> 2 [] c = "3" -> 3
      [] c = "4" -> 4 [] c = "5" -> 5 [] c = "6" -> 6 [] c = "7" -> 7
      [] c = "8" -> 8 [] c = "9" -> 9

\* int() of the digits s[i..j].
RECURSIVE IntOf(_, _, _)
IntOf(s, i, j) == IF j < i THEN 0 ELSE 10 * IntOf(s, i, j - 1) + DigitVal(s[j])

\* s[i..i+n-1] lies in s and is all digits: \d{n} at i.
DigitsAt(s, i, n) ==
    /\ i >= 1
    /\ i + n - 1 <= Len(s)
    /\ \A k \in i..(i + n - 1) : s[k] \in Digits

CharAt(s, i, c) == i >= 1 /\ i <= Len(s) /\ s[i] = c

IsLeapYear(y) == (y % 4 = 0 /\ y % 100 # 0) \/ y % 400 = 0

DaysInMonth(y, mo) ==
    IF mo = 2 THEN (IF IsLeapYear(y) THEN 29 ELSE 28)
    ELSE IF mo \in {4, 6, 9, 11} THEN 30
    ELSE 31

\* datetime(y, mo, d, h, mi, sec) accepts the values (else ValueError).
ValidDateTime(y, mo, d, h, mi, sec) ==
    /\ y >= 1 /\ y <= 9999
    /\ mo >= 1 /\ mo <= 12
    /\ d >= 1 /\ d <= DaysInMonth(y, mo)
    /\ h >= 0 /\ h <= 23
    /\ mi >= 0 /\ mi <= 59
    /\ sec >= 0 /\ sec <= 59

\* datetime.strptime(s[i..i+7], "%Y%m%d"), with h, mi, sec the time of day: the
\* eight digits split 4-2-2 (the only split the format's patterns allow), and
\* None for a ValueError.
ParseDate8(s, i, h, mi, sec) ==
    LET y == IntOf(s, i, i + 3)
        mo == IntOf(s, i + 4, i + 5)
        d == IntOf(s, i + 6, i + 7)
    IN  IF ValidDateTime(y, mo, d, h, mi, sec)
        THEN Some(DateTime(y, mo, d, h, mi, sec))
        ELSE None

\* datetime.strptime(s[i..i+14], "%Y%m%d_%H%M%S"): the six digits after the "_"
\* split 2-2-2.
ParseDateTime15(s, i) ==
    ParseDate8(s, i, IntOf(s, i + 9, i + 10), IntOf(s, i + 11, i + 12),
               IntOf(s, i + 13, i + 14))

\* 2000 <= parsed_date.year <= 2030
Plausible(dt) == MinPlausibleYear <= Year(dt) /\ Year(dt) <= MaxPlausibleYear

\* r'(\d{8})_(\d{6})' matches at i
MatchesDateTime(s, i) ==
    DigitsAt(s, i, 8) /\ CharAt(s, i + 8, "_") /\ DigitsAt(s, i + 9, 6)

\* r'(\d{8})' matches at i
MatchesDate8(s, i) == DigitsAt(s, i, 8)

\* r'(\d{4})-(\d{2})-(\d{2})' matches at i
MatchesDashed(s, i) ==
    /\ DigitsAt(s, i, 4) /\ CharAt(s, i + 4, "-")
    /\ DigitsAt(s, i + 5, 2) /\ CharAt(s, i + 7, "-")
    /\ DigitsAt(s, i + 8, 2)

\* The pattern named pat matches at i.
MatchesAt(s, pat, i) ==
    CASE pat = "pattern_with_time" -> MatchesDateTime(s, i)
      [] pat = "pattern" -> MatchesDate8(s, i)
      [] pat = "pattern2" -> MatchesDashed(s, i)

\* re.search: the leftmost position where the pattern matches, 0 for no match.
RECURSIVE LeftmostFrom(_, _, _)
LeftmostFrom(s, pat, i) ==
    IF i > Len(s) THEN 0
    ELSE IF MatchesAt(s, pat, i) THEN i
    ELSE LeftmostFrom(s, pat, i + 1)

LeftmostMatch(s, pat) == LeftmostFrom(s, pat, 1)

\* Pattern 1 of extract_date_from_filename: the parsed date, if it is plausible.
pattern_with_time(s) ==
    LET at == LeftmostMatch(s, "pattern_with_time")
    IN  IF at = 0 THEN None
        ELSE LET parsed == ParseDateTime15(s, at)
             IN  IF parsed # None /\ Plausible(Val(parsed)) THEN parsed ELSE None

\* Pattern 2: eight consecutive digits anywhere.
pattern_date8(s) ==
    LET at == LeftmostMatch(s, "pattern")
    IN  IF at = 0 THEN None
        ELSE LET parsed == ParseDate8(s, at, 0, 0, 0)
             IN  IF parsed # None /\ Plausible(Val(parsed)) THEN parsed ELSE None

\* Pattern 3: YYYY-MM-DD.
pattern_dashed(s) ==
    LET at == LeftmostMatch(s, "pattern2")
    IN  IF at = 0 THEN None
        ELSE LET y == IntOf(s, at, at + 3)
                 mo == IntOf(s, at + 5, at + 6)
                 d == IntOf(s, at + 8, at + 9)
             IN  IF ValidDateTime(y, mo, d, 0, 0, 0)
                    /\ Plausible(DateTime(y, mo, d, 0, 0, 0))
                 THEN Some(DateTime(y, mo, d, 0, 0, 0))
                 ELSE None

\* A buggy extraction whose first pattern returns the parsed date without the
\* check of its year.
extract_date_from_filename_unchecked(filename) ==
    LET at == LeftmostMatch(filename, "pattern_with_time")
    IN  IF at # 0 /\ ParseDateTime15(filename, at) # None
        THEN ParseDateTime15(filename, at)
        ELSE IF pattern_date8(filename) # None THEN pattern_date8(filename)
        ELSE pattern_dashed(filename)

\* extract_date_from_filename(filename) -> Optional[datetime]
extract_date_from_filename(filename) ==
    IF pattern_with_time(filename) # None THEN pattern_with_time(filename)
    ELSE IF pattern_date8(filename) # None THEN pattern_date8(filename)
    ELSE pattern_dashed(filename)

\* Bound of the number of pieces a drawn filename is made of.
MaxNameSegments == 4

\* The pieces: a real date of a plausible year, a real date of an implausible
\* year, eight digits that are no date, a time after its "_", a lone "_", a
\* dashed date and a letter.
NameSegments ==
    { <<"2", "0", "2", "5", "0", "1", "0", "2">>,
      <<"1", "9", "9", "9", "1", "2", "3", "1">>,
      <<"2", "0", "2", "5", "1", "3", "0", "1">>,
      <<"_", "1", "6", "1", "3", "3", "4">>,
      <<"_">>,
      <<"2", "0", "2", "5", "-", "0", "3", "-", "1", "4">>,
      <<"x">> }

RECURSIVE Concat(_)
Concat(segs) == IF segs = <<>> THEN <<>> ELSE Head(segs) \o Concat(Tail(segs))

\* The filenames of 1..MaxNameSegments pieces.
FileNames ==
    {Concat(segs) : segs \in UNION {[1..n -> NameSegments] : n \in 1..MaxNameSegments}}

InitFn ==
    /\ fn_filename \in FileNames
    /\ fn_result = None

IdleFn ==
    /\ fn_filename = <<>>
    /\ fn_result = None

\* One call of extract_date_from_filename on the drawn filename.
ExtractDate ==
    /\ fn_result = None
    /\ fn_result' = Some(extract_date_from_filename(fn_filename))
    /\ UNCHANGED fn_filename
    /\ UNCHANGED outsideFn

NextFn == ExtractDate

(***************************************************************************)
(* Date resolver: utils.get_media_date                                     *)
(***************************************************************************)

\* A media file is [stem, ext, meta, stat]: the characters of its name before
\* the extension, its lower-cased extension, what reading its embedded metadata
\* gives (<<kind, datetime>>) and what os.path.getmtime gives (<<kind, datetime>>).
MediaFile(stem, ext, meta, stat) ==
    [stem |-> stem, ext |-> ext, meta |-> meta, stat |-> stat]

\* No datetime: the second component of an outcome that carries none.
NoDate == <<>>

\* The extensions get_media_date reads EXIF from, and those it runs ffprobe on.
ExifExts == {".jpg", ".jpeg", ".png", ".heic"}
FfprobeExts == {".mp4", ".mov", ".avi", ".mkv"}

ExtChars(ext) ==
    CASE ext = ".jpg" -> <<".", "j", "p", "g">>
      [] ext = ".jpeg" -> <<".", "j", "p", "e", "g">>
      [] ext = ".png" -> <<".", "p", "n", "g">>
      [] ext = ".heic" -> <<".", "h", "e", "i", "c">>
      [] ext = ".gif" -> <<".", "g", "i", "f">>
      [] ext = ".mp4" -> <<".", "m", "p", "4">>
      [] ext = ".mov" -> <<".", "m", "o", "v">>
      [] ext = ".avi" -> <<".", "a", "v", "i">>
      [] ext = ".mkv" -> <<".", "m", "k", "v">>
      [] ext = ".txt" -> <<".", "t", "x", "t">>

\* os.path.basename(filepath)
Basename(file) == file.stem \o ExtChars(file.ext)

\* get_image_exif_date: the date of the first tag that parses; None when there
\* is no tag, when no tag parses, and when reading raises (the except clause).
get_image_exif_date(file) ==
    IF file.meta[1] = "date" THEN Some(file.meta[2]) ELSE None

\* get_video_metadata_date: the creation_time ffprobe prints; None when ffprobe
\* exits non-zero, prints no creation_time or one that does not parse, and when
\* running it raises (the except clause).
get_video_metadata_date(file) ==
    IF file.meta[1] = "date" THEN Some(file.meta[2]) ELSE None

\* get_file_modification_date: os.path.getmtime raises OSError when the file
\* cannot be stat'ed, and nothing catches it.
get_file_modification_date(file) ==
    IF file.stat[1] = "ok" THEN <<"return", file.stat[2], "file_mtime">>
    ELSE <<"raise", NoDate, "OSError">>

date_from_metadata(file) ==
    IF file.ext \in ExifExts THEN get_image_exif_date(file)
    ELSE IF file.ext \in FfprobeExts THEN get_video_metadata_date(file)
    ELSE None

metadata_source(file) ==
    IF file.ext \in ExifExts THEN "exif"
    ELSE IF file.ext \in FfprobeExts THEN "video_metadata"
    ELSE "None"

\* A buggy decision that prefers the filename only when it is strictly earlier
\* than the metadata date.
select_date_strict(file, target_year, date_from_filename, from_metadata) ==
    LET filename_valid == date_from_filename # None
                          /\ Year(Val(date_from_filename)) = target_year
        metadata_valid == from_metadata # None
                          /\ Year(Val(from_metadata)) = target_year
        by_filename == <<"return", Val(date_from_filename), "filename">>
        by_metadata == <<"return", Val(from_metadata), metadata_source(file)>>
    IN  IF filename_valid /\ metadata_valid
        THEN IF TupleLess(Val(date_from_filename), Val(from_metadata))
             THEN by_filename
             ELSE by_metadata
        ELSE IF filename_valid THEN by_filename
        ELSE IF metadata_valid THEN by_metadata
        ELSE IF date_from_filename # None THEN by_filename
        ELSE IF from_metadata # None THEN by_metadata
        ELSE get_file_modification_date(file)

\* A buggy decision that, with no date valid for the year, tries the metadata
\* date before the filename date.
select_date_metadata_first(file, target_year, date_from_filename, from_metadata) ==
    LET filename_valid == date_from_filename # None
                          /\ Year(Val(date_from_filename)) = target_year
        metadata_valid == from_metadata # None
                          /\ Year(Val(from_metadata)) = target_year
        by_filename == <<"return", Val(date_from_filename), "filename">>
        by_metadata == <<"return", Val(from_metadata), metadata_source(file)>>
    IN  IF filename_valid /\ metadata_valid
        THEN IF DtLeq(Val(date_from_filename), Val(from_metadata))
             THEN by_filename
             ELSE by_metadata
        ELSE IF filename_valid THEN by_filename
        ELSE IF metadata_valid THEN by_metadata
        ELSE IF from_metadata # None THEN by_metadata
        ELSE IF date_from_filename # None THEN by_filename
        ELSE get_file_modification_date(file)

\* The decision logic of get_media_date (lines 222-253) on the two dates read:
\* <<"return", datetime, source>>, or <<"raise", NoDate, exception>>.
select_date(file, target_year, date_from_filename, from_metadata) ==
    LET filename_valid == date_from_filename # None
                          /\ Year(Val(date_from_filename)) = target_year
        metadata_valid == from_metadata # None
                          /\ Year(Val(from_metadata)) = target_year
        by_filename == <<"return", Val(date_from_filename), "filename">>
        by_metadata == <<"return", Val(from_metadata), metadata_source(file)>>
    IN  IF filename_valid /\ metadata_valid
        THEN IF DtLeq(Val(date_from_filename), Val(from_metadata))
             THEN by_filename
             ELSE by_metadata
        ELSE IF filename_valid THEN by_filename
        ELSE IF metadata_valid THEN by_metadata
        ELSE IF date_from_filename # None THEN by_filename
        ELSE IF from_metadata # None THEN by_metadata
        ELSE get_file_modification_date(file)

\* get_media_date(filepath, target_year) -> (datetime, source)
get_media_date(file, target_year) ==
    select_date(file, target_year,
                extract_date_from_filename(Basename(file)), date_from_metadata(file))

\* The names, metadata outcomes and stat outcomes get_media_date is checked on:
\* no date in the name, a date with and without time in the target year, a
\* plausible date of another year.
DateStems ==
    { <<"x">>,
      <<"2", "0", "2", "5", "0", "1", "0", "2", "_", "1", "6", "1", "3", "3", "4">>,
      <<"x", "_", "2", "0", "2", "5", "0", "1", "0", "2">>,
      <<"2", "0", "2", "4", "0", "7", "0", "4">> }

DateExts == {".jpg", ".mp4", ".gif"}

\* Equal to, earlier than and later than the date and time of the second name,
\* and a date of another year.
MetaDates ==
    { DateTime(2025, 1, 2, 16, 13, 34), DateTime(2025, 1, 2, 9, 0, 0),
      DateTime(2025, 6, 1, 0, 0, 0), DateTime(2024, 12, 31, 23, 0, 0) }

MetaOutcomes ==
    {<<"date", dt>> : dt \in MetaDates}
        \cup {<<k, NoDate>> : k \in {"no_tag", "unparsable", "nonzero_exit", "raises"}}

StatOutcomes ==
    { <<"ok", DateTime(2025, 3, 1, 8, 0, 0)>>, <<"ok", DateTime(2026, 1, 1, 0, 0, 0)>>,
      <<"oserror", NoDate>> }

MediaFiles ==
    {MediaFile(stem, ext, meta, stat) :
        stem \in DateStems, ext \in DateExts, meta \in MetaOutcomes, stat \in StatOutcomes}

InitDate ==
    /\ media_file \in MediaFiles
    /\ date_result = None

IdleDate ==
    /\ media_file = None
    /\ date_result = None

\* One call of get_media_date(filepath) with the default target year.
GetMediaDate ==
    /\ date_result = None
    /\ date_result' = get_media_date(media_file, TARGET_YEAR)
    /\ UNCHANGED media_file
    /\ UNCHANGED outsideDate

NextDate == GetMediaDate

(***************************************************************************)
(* Assignment store: assign_media.py, regenerate_month.rescan_month_files  *)
(***************************************************************************)

\* f"{n:02d}" and f"{n:04d}" (a number of five digits keeps them all)
DigitChar(d) == CHOOSE c \in Digits : DigitVal(c) = d
Pad2(n) == <<DigitChar((n \div 10) % 10), DigitChar(n % 10)>>
Pad4(n) ==
    IF n < 10000 THEN Pad2(n \div 100) \o Pad2(n % 100)
    ELSE <<DigitChar(n \div 10000)>> \o Pad2((n % 10000) \div 100) \o Pad2(n % 100)

\* media_date.strftime("%Y-%m-%d")
strftime_date(dt) == Pad4(Year(dt)) \o <<"-">> \o Pad2(Month(dt)) \o <<"-">> \o Pad2(Day(dt))

\* media_date.isoformat(), whole seconds
isoformat(dt) ==
    strftime_date(dt) \o <<"T">> \o Pad2(dt[4]) \o <<":">> \o Pad2(dt[5])
        \o <<":">> \o Pad2(dt[6])

\* ord() of the characters of a date string
CharOrd(c) ==
    CASE c = "-" -> 45 [] c = ":" -> 58 [] c = "T" -> 84
      [] OTHER -> 48 + DigitVal(c)

\* str < str
RECURSIVE StrLess(_, _)
StrLess(a, b) ==
    IF b = <<>> THEN FALSE
    ELSE IF a = <<>> THEN TRUE
    ELSE IF Head(a) # Head(b) THEN CharOrd(Head(a)) < CharOrd(Head(b))
    ELSE StrLess(Tail(a), Tail(b))

\* list.sort(key=lambda x: x['date']): stable, ascending by the date string.
RECURSIVE InsertByDate(_, _)
InsertByDate(rec, sorted) ==
    IF sorted = <<>> THEN <<rec>>
    ELSE IF StrLess(rec.date, Head(sorted).date) THEN <<rec>> \o sorted
    ELSE <<Head(sorted)>> \o InsertByDate(rec, Tail(sorted))

\* A buggy sort that inserts from the front of the list, which turns records of
\* equal date around.
RECURSIVE SortByDate_ties_reversed(_)
SortByDate_ties_reversed(media_list) ==
    IF media_list = <<>> THEN <<>>
    ELSE InsertByDate(Head(media_list), SortByDate_ties_reversed(Tail(media_list)))

RECURSIVE SortByDate(_)
SortByDate(media_list) ==
    IF media_list = <<>> THEN <<>>
    ELSE InsertByDate(media_list[Len(media_list)],
                      SortByDate(SubSeq(media_list, 1, Len(media_list) - 1)))

\* config.ALL_SUPPORTED_FORMATS and the type tests of utils.py
SUPPORTED_IMAGE_FORMATS == {".jpg", ".jpeg", ".png", ".heic", ".gif"}
SUPPORTED_VIDEO_FORMATS == {".mp4", ".mov", ".avi", ".mkv"}
ALL_SUPPORTED_FORMATS == SUPPORTED_IMAGE_FORMATS \cup SUPPORTED_VIDEO_FORMATS

media_type(file) ==
    IF file.ext = ".gif" THEN "gif"
    ELSE IF file.ext \in SUPPORTED_VIDEO_FORMATS THEN "video"
    ELSE IF file.ext \in SUPPORTED_IMAGE_FORMATS THEN "image"
    ELSE "unknown"

\* The path of a file: the input folder is flat, its files differ by name.
FilePath(file) == Basename(file)

\* Every order os.listdir can list a folder in.
Listings(folder) ==
    {q \in [1..Cardinality(folder) -> folder] :
        \A i, j \in 1..Cardinality(folder) : i # j => q[i] # q[j]}

\* scan_media_folder: the listed files with a supported extension, in
\* listing order.
scan_media_folder(listing) ==
    LET supported(file) == file.ext \in ALL_SUPPORTED_FORMATS
    IN  SelectSeq(listing, supported)

\* {}: the dict without keys
EmptyDict == [k \in {} |-> <<>>]

\* A buggy year test that lets every year through.
wrong_year_never(media_date) == FALSE

\* media_date.year != TARGET_YEAR
wrong_year(media_date) == Year(media_date) # TARGET_YEAR

\* The record assign_media_to_days appends for a file.
media_info(file, media_date, source) ==
    [filepath |-> FilePath(file), filename |-> Basename(file),
     type |-> media_type(file), date |-> isoformat(media_date), source |-> source]

\* The files the input folder is filled from: two files of 2 January 2025 (one
\* dated by its name, one by its name at midnight), x.jpg in two versions (EXIF
\* of the same second as the first file, EXIF of June), a file of March, one of
\* 2024, one that can no longer be stat'ed when its date is resolved, and one
\* that is not media.
StatOk == <<"ok", DateTime(2025, 3, 1, 8, 0, 0)>>
AssignFiles ==
    { MediaFile(<<"2", "0", "2", "5", "0", "1", "0", "2", "_", "1", "6", "1", "3", "3", "4">>,
                ".jpg", <<"no_tag", NoDate>>, StatOk),
      MediaFile(<<"x", "_", "2", "0", "2", "5", "0", "1", "0", "2">>,
                ".mp4", <<"date", DateTime(2025, 1, 2, 9, 0, 0)>>, StatOk),
      MediaFile(<<"x">>, ".jpg", <<"date", DateTime(2025, 1, 2, 16, 13, 34)>>, StatOk),
      MediaFile(<<"x">>, ".jpg", <<"date", DateTime(2025, 6, 1, 0, 0, 0)>>, StatOk),
      MediaFile(<<"2", "0", "2", "5", "-", "0", "3", "-", "1", "4">>,
                ".gif", <<"no_tag", NoDate>>, StatOk),
      MediaFile(<<"2", "0", "2", "4", "0", "7", "0", "4">>,
                ".jpg", <<"raises", NoDate>>, StatOk),
      MediaFile(<<"x">>, ".gif", <<"no_tag", NoDate>>, <<"oserror", NoDate>>),
      MediaFile(<<"x">>, ".txt", <<"no_tag", NoDate>>, StatOk) }

\* The files of the runs that render clips: fileA and fileB of 4 July 2025
\* (fileB earlier in the day), fileA overwritten at a later time, and a file
\* whose date resolution raises.
FileA ==
    MediaFile(<<"2", "0", "2", "5", "0", "7", "0", "4", "_", "1", "2", "0", "0", "0", "0">>,
              ".jpg", <<"no_tag", NoDate>>, StatOk)
FileAChanged == [FileA EXCEPT !.stat = <<"ok", DateTime(2025, 8, 1, 8, 0, 0)>>]
FileB ==
    MediaFile(<<"2", "0", "2", "5", "0", "7", "0", "4", "_", "0", "8", "0", "0", "0", "0">>,
              ".mp4", <<"no_tag", NoDate>>, StatOk)
FileUnreadable == MediaFile(<<"y">>, ".gif", <<"no_tag", NoDate>>, <<"oserror", NoDate>>)
RenderFiles == {FileA, FileAChanged, FileB, FileUnreadable}

\* The files of the runs that look at the order of the clips: fileA and fileB
\* of 4 July, a file of 3 July and one of 2 January.
FileC ==
    MediaFile(<<"2", "0", "2", "5", "0", "7", "0", "3", "_", "0", "9", "0", "0", "0", "0">>,
              ".jpg", <<"no_tag", NoDate>>, StatOk)
FileJanuary ==
    MediaFile(<<"2", "0", "2", "5", "0", "1", "0", "2", "_", "1", "6", "1", "3", "3", "4">>,
              ".jpg", <<"no_tag", NoDate>>, StatOk)
SequenceFiles == {FileA, FileB, FileC, FileJanuary}

\* Two files of one base name: the photo fileA and a video that differs from
\* it in the extension only.
FileATwin == MediaFile(FileA.stem, ".mp4", <<"no_tag", NoDate>>, StatOk)
TwinFiles == {FileA, FileATwin}

\* get_media_date(filepath) of every file, tabulated: the function is pure and
\* the assignment loop calls it on these files only.
MediaDates ==
    [file \in AssignFiles \cup RenderFiles \cup SequenceFiles \cup TwinFiles |->
        get_media_date(file, TARGET_YEAR)]

\* One turn of the loop of assign_media_to_days: a file whose get_media_date
\* raises is logged and left out, a file of another year is skipped, any other
\* file is appended to the bucket of its day.
assign_file(assignments, file, resolved) ==
    IF resolved[1] = "raise" THEN assignments
    ELSE IF wrong_year(resolved[2]) THEN assignments
    ELSE [k \in DOMAIN assignments \cup {strftime_date(resolved[2])} |->
             IF k # strftime_date(resolved[2]) THEN assignments[k]
             ELSE IF k \in DOMAIN assignments
             THEN Append(assignments[k], media_info(file, resolved[2], resolved[3]))
             ELSE <<media_info(file, resolved[2], resolved[3])>>]

\* The loop of assign_media_to_days over media_files[1..n].
RECURSIVE assign_loop(_, _)
assign_loop(media_files, n) ==
    IF n = 0 THEN EmptyDict
    ELSE assign_file(assign_loop(media_files, n - 1), media_files[n],
                     MediaDates[media_files[n]])

\* assignments[date_key].sort(key=lambda x: x['date']) for every date_key
sort_buckets(assignments) ==
    [k \in DOMAIN assignments |-> SortByDate(assignments[k])]

\* assign_media_to_days(media_files): the buckets, each sorted by date.
assign_media_to_days(media_files) ==
    sort_buckets(assign_loop(media_files, Len(media_files)))

\* int(date_key.split('-')[1])
month_of_key(date_key) == IntOf(date_key, 6, 7)

\* The filepaths of the records of a store.
existing_files(existing_assignments) ==
    UNION {{existing_assignments[k][i].filepath :
                i \in 1..Len(existing_assignments[k])} :
                    k \in DOMAIN existing_assignments}

\* [f for f in all_files if f not in existing_files]
new_files(all_files, existing) ==
    LET is_new(file) == FilePath(file) \notin existing
    IN  SelectSeq(all_files, is_new)

\* The buckets of new_assignments whose month is asked for.
new_for_months(new_assignments, months_to_scan) ==
    [k \in {d \in DOMAIN new_assignments : month_of_key(d) \in months_to_scan} |->
        new_assignments[k]]

\* The merge of rescan_month_files: extend and re-sort a bucket that exists,
\* add one that does not.
merge_assignments(existing_assignments, for_months) ==
    [k \in DOMAIN existing_assignments \cup DOMAIN for_months |->
        IF k \notin DOMAIN for_months THEN existing_assignments[k]
        ELSE IF k \in DOMAIN existing_assignments
        THEN SortByDate(existing_assignments[k] \o for_months[k])
        ELSE for_months[k]]

\* The end of rescan_month_files: nothing is written when no new file falls
\* in the months asked for.
rescan_save(store, existing_assignments, for_months) ==
    IF DOMAIN for_months = {} THEN <<store, EmptyDict>>
    ELSE <<Some(merge_assignments(existing_assignments, for_months)), for_months>>

\* json.load of the store, {} when the file does not exist
load_existing(store) == IF store = None THEN EmptyDict ELSE Val(store)

\* rescan_month_files(months_to_scan) on a store and a scan of the folder:
\* <<the store afterwards, the returned dict>>. Without new files
\* assign_media_to_days gets no file and nothing is written.
rescan_month_files(store, all_files, months_to_scan) ==
    rescan_save(store, load_existing(store),
                new_for_months(
                    assign_media_to_days(
                        new_files(all_files, existing_files(load_existing(store)))),
                    months_to_scan))

\* The most files the folder holds at a time.
MaxFolderFiles == 2

\* The month lists regenerate_month is run with.
RescanMonths == {{1}, {3}, {1, 6}}

Folders ==
    {F \in SUBSET AssignFiles :
        /\ Cardinality(F) <= MaxFolderFiles
        /\ \A f, g \in F : FilePath(f) = FilePath(g) => f = g}

InitAssign ==
    /\ input_folder = {}
    /\ assignment_store = None
    /\ rescan_result = None

IdleAssign ==
    /\ input_folder = None
    /\ assignment_store = None
    /\ rescan_result = None

\* The user puts a file into the input folder.
AddFile ==
    /\ \E file \in AssignFiles :
          /\ input_folder \cup {file} \in Folders
          /\ file \notin input_folder
          /\ input_folder' = input_folder \cup {file}
    /\ UNCHANGED <<assignment_store, rescan_result>>
    /\ UNCHANGED outsideAssign

\* The user takes a file out of the input folder.
RemoveFile ==
    /\ \E file \in input_folder : input_folder' = input_folder \ {file}
    /\ UNCHANGED <<assignment_store, rescan_result>>
    /\ UNCHANGED outsideAssign

\* The user overwrites a file of the input folder.
ModifyFile ==
    /\ \E file \in input_folder, other \in AssignFiles :
          /\ other # file
          /\ FilePath(other) = FilePath(file)
          /\ input_folder' = (input_folder \ {file}) \cup {other}
    /\ UNCHANGED <<assignment_store, rescan_result>>
    /\ UNCHANGED outsideAssign

\* assign_media.main: scan the folder, return if it holds no media, else
\* assign every file and save the assignment JSON.
AssignMediaMain ==
    /\ \E listing \in Listings(input_folder) :
          assignment_store' =
              IF scan_media_folder(listing) = <<>> THEN assignment_store
              ELSE Some(assign_media_to_days(scan_media_folder(listing)))
    /\ rescan_result' = None
    /\ UNCHANGED input_folder
    /\ UNCHANGED outsideAssign

\* regenerate_month.rescan_month_files(months_to_scan)
RescanMonthFiles ==
    /\ \E months_to_scan \in RescanMonths, listing \in Listings(input_folder) :
          \E out \in {rescan_month_files(assignment_store,
                                         scan_media_folder(listing), months_to_scan)} :
              /\ assignment_store' = out[1]
              /\ rescan_result' = Some(out[2])
    /\ UNCHANGED input_folder
    /\ UNCHANGED outsideAssign

NextAssign ==
    \/ AddFile
    \/ RemoveFile
    \/ ModifyFile
    \/ AssignMediaMain
    \/ RescanMonthFiles

(***************************************************************************)
(* Change detector: incremental_scan.py                                    *)
(***************************************************************************)

\* Bounds of the signature maps handed to detect_changes.
MaxDiffPaths == 3
MaxDiffSigs == 2

DiffPaths == 1..MaxDiffPaths
\* A signature is the string "<st_mtime>_<st_size>" (get_file_signature); the
\* two numbers are separated by the only "_" of the string, so two signatures
\* are equal exactly when both numbers are: a signature is one opaque value.
DiffSigs == 1..MaxDiffSigs

\* A dict {filepath: signature}: a function on a subset of the paths.
SigMaps(P, S) == UNION {[D -> S] : D \in SUBSET P}

\* dict.get(path): the value, or None for a missing key.
DictGet(d, k) == IF k \in DOMAIN d THEN Some(d[k]) ELSE None

\* A buggy detect_changes that compares every current path with
\* previous_scan.get(path), so that a new path also counts as changed.
detect_changes_all_current(current, previous) ==
    LET current_paths == DOMAIN current
        previous_paths == DOMAIN previous
    IN  [new |-> current_paths \ previous_paths,
         changed |-> {path \in current_paths :
                          Some(current[path]) # DictGet(previous, path)},
         deleted |-> previous_paths \ current_paths]

\* detect_changes(current_files, previous_scan) -> (new, changed, deleted)
detect_changes(current, previous) ==
    LET current_paths == DOMAIN current
        previous_paths == DOMAIN previous
    IN  [new |-> current_paths \ previous_paths,
         changed |-> {path \in current_paths \cap previous_paths :
                          Some(current[path]) # DictGet(previous, path)},
         deleted |-> previous_paths \ current_paths]

InitDiff ==
    /\ current_files \in SigMaps(DiffPaths, DiffSigs)
    /\ previous_scan \in SigMaps(DiffPaths, DiffSigs)
    /\ diff_result = None

IdleDiff ==
    /\ current_files = <<>>
    /\ previous_scan = <<>>
    /\ diff_result = None

\* One call of detect_changes on the drawn arguments.
DetectChanges ==
    /\ diff_result = None
    /\ diff_result' = Some(detect_changes(current_files, previous_scan))
    /\ UNCHANGED <<current_files, previous_scan>>
    /\ UNCHANGED outsideDiff

NextDiff == DetectChanges

(***************************************************************************)
(* The programs: generate_recap_optimized.py, regenerate_month.py,         *)
(* generate_optimized.py                                                   *)
(***************************************************************************)

\* get_file_signature: "<st_mtime>_<st_size>"; the versions of a file differ
\* in their modification time, which stands for the pair.
get_file_signature(file) == file.stat[2]

\* The dict {filepath: signature} incremental_media_scan builds of the folder.
current_signatures(folder) ==
    [path \in {FilePath(file) : file \in {f \in folder : f.ext \in ALL_SUPPORTED_FORMATS}} |->
        get_file_signature(CHOOSE file \in folder : FilePath(file) = path)]

\* load_previous_scan: {} when there is no cache file
load_previous_scan(cache) == IF cache = None THEN EmptyDict ELSE Val(cache)

\* files_to_process = new_files | changed_files
to_process(changes) == changes.new \cup changes.changed

\* A buggy scan that updates the previous scan with the current files and
\* saves that, so that the entries of files no longer there stay.
incremental_media_scan_merging(folder, cache) ==
    [all_files |-> DOMAIN current_signatures(folder),
     files_to_process |->
         to_process(detect_changes(current_signatures(folder), load_previous_scan(cache))),
     saved |->
         Some([path \in DOMAIN load_previous_scan(cache) \cup DOMAIN current_signatures(folder) |->
                  IF path \in DOMAIN current_signatures(folder)
                  THEN current_signatures(folder)[path]
                  ELSE load_previous_scan(cache)[path]])]

\* incremental_media_scan(media_folder, scan_cache_file) on a folder and a scan
\* cache file: the paths of current_files, files_to_process, and the scan
\* cache file save_scan_results leaves (json.dump of a dict of strings, which
\* json.load gives back as it was).
incremental_media_scan(folder, cache) ==
    [all_files |-> DOMAIN current_signatures(folder),
     files_to_process |->
         to_process(detect_changes(current_signatures(folder), load_previous_scan(cache))),
     saved |-> Some(current_signatures(folder))]

\* The files of the runs of the programs: one of January, one of March.
PipelineFiles ==
    { MediaFile(<<"2", "0", "2", "5", "0", "1", "0", "2", "_", "1", "6", "1", "3", "3", "4">>,
                ".jpg", <<"no_tag", NoDate>>, StatOk),
      MediaFile(<<"2", "0", "2", "5", "-", "0", "3", "-", "1", "4">>,
                ".gif", <<"no_tag", NoDate>>, StatOk) }

\* month_dates of generate_month_video: the keys that start with "2025-MM".
month_dates(assignments, m) ==
    {d \in DOMAIN assignments :
        SubSeq(d, 1, 7) = <<"2", "0", "2", "5", "-">> \o Pad2(m)}

\* A buggy skip test that does not look for the month output file.
skip_month_done_only(data, m, outputs) == is_month_complete(data, m)

\* generate_optimized, line 201: skip the month if it is marked complete and
\* its month output file exists.
skip_month(data, m, outputs) == is_month_complete(data, m) /\ m \in outputs

\* A buggy start that resumes from a completed checkpoint.
start_checkpoint_resume(file) == Manager(load_checkpoint(file), file)

\* main of generate_recap_optimized, lines 86-92: the manager after
\* CheckpointManager(CHECKPOINT_FILE) and, if the run was complete, clear().
start_checkpoint(file) ==
    IF is_complete(load_checkpoint(file))
    THEN clear(Manager(load_checkpoint(file), file))
    ELSE Manager(load_checkpoint(file), file)

\* A buggy regeneration that leaves the checkpoint as it is.
invalidate_months_forgotten(mgr, months) == mgr

\* regenerate_month.main, lines 141-149, on the checkpoint: invalidate_month
\* for every month of the list.
RECURSIVE invalidate_months(_, _)
invalidate_months(mgr, months) ==
    IF months = {} THEN mgr
    ELSE invalidate_months(invalidate_month(mgr, CHOOSE m \in months : TRUE),
                           months \ {CHOOSE m \in months : TRUE})

\* No generate_month_video is under way. listed is what os.listdir gave of the
\* processed folder, cache the processed_clips_cache built of it, items
\* the media_info records of the month in the order of the loops, pos the next
\* of them, month_clips the clips collected (without the separator); requests
\* holds the files handed to process_media_file, hits the lookups answered from
\* the cache (and whether the clip file was there then), failed the files whose
\* process_media_file returned None, final_clips the list handed to the
\* compilation of the month (final_clips_for_month).
NoRender ==
    [month |-> 0, listed |-> {}, cache |-> <<>>, items |-> <<>>, pos |-> 0, month_clips |-> <<>>,
     clip_index |-> 0, requests |-> {}, hits |-> {}, failed |-> {}, final_clips |-> <<>>,
     month_clip_dates |-> <<>>]

IdleClips ==
    /\ processed_folder = {}
    /\ render = NoRender
    /\ clip_content = <<>>

\* No program is running.
NoRun ==
    [prog |-> "none", months |-> {}, no_scan |-> FALSE,
     all_files |-> <<>>, files_to_process |-> {}, deleted_files |-> {},
     has_changes |-> FALSE,
     loaded_completed |-> FALSE, did |-> {}, did_stale |-> FALSE,
     invoked |-> {}, compiled |-> {}, month_videos |-> <<>>,
     stopped_at |-> "none", error |-> "none",
     outcome |-> "none"]

\* A scan, assignment or render step of the running process: it is recorded,
\* and so is whether the checkpoint of the process had completed set then.
Did(r, steps, stale) ==
    [r EXCEPT !.did = @ \cup steps, !.did_stale = @ \/ (steps # {} /\ stale)]

\* The positions at which a running program can be interrupted or fail.
RunningPcs ==
    {"phase1", "mark_scan", "assign", "first_run", "regen_load", "regen_invalidate",
     "load_assignments", "month", "render", "compiled", "mark_all", "cleanup"}

InitPipe ==
    /\ pc = "idle"
    /\ loop_month = 0
    /\ run = NoRun
    /\ scan_cache = None
    /\ month_outputs = {}
    /\ input_folder = {}
    /\ assignment_store = None
    /\ checkpoint_file = None
    /\ checkpoint_data = create_empty_checkpoint

IdlePipe ==
    /\ pc = "idle"
    /\ loop_month = 0
    /\ run = NoRun
    /\ scan_cache = None
    /\ month_outputs = {}

\* Between two runs the user puts a file into the input folder,
UserAddsFile ==
    /\ pc = "idle"
    /\ \E file \in PipelineFiles \ input_folder :
          /\ Cardinality(input_folder) < MaxFolderFiles
          /\ input_folder' = input_folder \cup {file}
    /\ UNCHANGED <<assignment_store, ckptVars, pc, loop_month, run, scan_cache, month_outputs>>
    /\ UNCHANGED outsidePipe

\* takes one out,
UserRemovesFile ==
    /\ pc = "idle"
    /\ \E file \in input_folder : input_folder' = input_folder \ {file}
    /\ UNCHANGED <<assignment_store, ckptVars, pc, loop_month, run, scan_cache, month_outputs>>
    /\ UNCHANGED outsidePipe

\* deletes media_assignment.json,
UserDeletesStore ==
    /\ pc = "idle"
    /\ assignment_store # None
    /\ assignment_store' = None
    /\ UNCHANGED <<input_folder, ckptVars, pc, loop_month, run, scan_cache, month_outputs>>
    /\ UNCHANGED outsidePipe

\* or deletes a month output file.
UserDeletesOutput ==
    /\ pc = "idle"
    /\ \E m \in month_outputs : month_outputs' = month_outputs \ {m}
    /\ UNCHANGED <<input_folder, assignment_store, ckptVars, pc, loop_month, run, scan_cache>>
    /\ UNCHANGED outsidePipe

\* generate_recap_optimized.main up to the try: the checkpoint is loaded and,
\* if the previous run was complete, cleared.
RecapStart ==
    /\ pc = "idle"
    /\ SetMgr(start_checkpoint(checkpoint_file))
    /\ run' = [NoRun EXCEPT !.prog = "recap", !.outcome = "running",
                   !.loaded_completed = is_complete(load_checkpoint(checkpoint_file))]
    /\ pc' = "phase1"
    /\ UNCHANGED <<input_folder, assignment_store, loop_month, scan_cache, month_outputs>>
    /\ UNCHANGED outsidePipe

\* update_media_assignments, lines 30-35: return False if both steps are
\* complete, else incremental_media_scan, which overwrites the scan cache.
UpdateScan ==
    /\ pc = "phase1"
    /\ IF /\ is_step_complete(checkpoint_data, "media_scan")
          /\ is_step_complete(checkpoint_data, "media_assignment")
       THEN /\ run' = [run EXCEPT !.has_changes = FALSE]
            /\ pc' = "first_run"
            /\ UNCHANGED scan_cache
       ELSE /\ \E listing \in Listings(input_folder) :
                  run' = [Did(run, {"scan"}, is_complete(checkpoint_data)) EXCEPT
                              !.all_files = scan_media_folder(listing),
                              !.files_to_process =
                                  to_process(detect_changes(
                                      current_signatures(input_folder),
                                      load_previous_scan(scan_cache))),
                              !.deleted_files =
                                  detect_changes(
                                      current_signatures(input_folder),
                                      load_previous_scan(scan_cache)).deleted]
            /\ scan_cache' = incremental_media_scan(input_folder, scan_cache).saved
            /\ pc' = "mark_scan"
    /\ UNCHANGED <<input_folder, assignment_store, ckptVars, loop_month, month_outputs>>
    /\ UNCHANGED outsidePipe

\* update_media_assignments, line 36
MarkScan ==
    /\ pc = "mark_scan"
    /\ SetMgr(mark_step_complete(Mgr, "media_scan"))
    /\ pc' = "assign"
    /\ UNCHANGED <<input_folder, assignment_store, loop_month, run, scan_cache, month_outputs>>
    /\ UNCHANGED outsidePipe

\* update_media_assignments, lines 38-51: without files to process and with an
\* assignment JSON the store is kept, else every file is assigned again.
UpdateAssign ==
    /\ pc = "assign"
    /\ IF run.files_to_process = {} /\ assignment_store # None
       THEN /\ run' = [run EXCEPT !.has_changes = FALSE]
            /\ UNCHANGED assignment_store
       ELSE /\ run' = [Did(run, {"assign"}, is_complete(checkpoint_data)) EXCEPT
                           !.has_changes = TRUE]
            /\ assignment_store' = Some(assign_media_to_days(run.all_files))
    /\ SetMgr(mark_step_complete(Mgr, "media_assignment"))
    /\ pc' = "first_run"
    /\ UNCHANGED <<input_folder, loop_month, scan_cache, month_outputs>>
    /\ UNCHANGED outsidePipe

\* main, lines 107-111: without changes and without an assignment JSON
\* assign_media.main runs (it saves nothing for a folder without media).
FirstRunCheck ==
    /\ pc = "first_run"
    /\ IF ~run.has_changes /\ assignment_store = None
       THEN /\ \E listing \in Listings(input_folder) :
                  IF scan_media_folder(listing) = <<>>
                  THEN /\ run' = Did(run, {"scan"}, is_complete(checkpoint_data))
                       /\ UNCHANGED assignment_store
                  ELSE /\ run' = Did(run, {"scan", "assign"}, is_complete(checkpoint_data))
                       /\ assignment_store' =
                              Some(assign_media_to_days(scan_media_folder(listing)))
            /\ SetMgr(mark_step_complete(Mgr, "media_assignment"))
       ELSE UNCHANGED <<run, assignment_store, ckptVars>>
    /\ pc' = "load_assignments"
    /\ UNCHANGED <<input_folder, loop_month, scan_cache, month_outputs>>
    /\ UNCHANGED outsidePipe

\* regenerate_month.main, lines 131-135: unless --no-scan, rescan_month_files
\* runs first; no checkpoint is loaded yet, the one on disk is what the later
\* load will read.
RegenRun(months, no_scan) ==
    /\ pc = "idle"
    /\ IF no_scan
       THEN /\ run' = [NoRun EXCEPT !.prog = "regenerate", !.outcome = "running",
                           !.months = months, !.no_scan = TRUE]
            /\ UNCHANGED assignment_store
       ELSE \E listing \in Listings(input_folder) :
               \E out \in {rescan_month_files(assignment_store,
                                              scan_media_folder(listing), months)} :
                   /\ assignment_store' = out[1]
                   /\ run' = [Did(NoRun,
                                  IF out[1] = assignment_store
                                  THEN {"scan"} ELSE {"scan", "assign"},
                                  is_complete(load_checkpoint(checkpoint_file)))
                              EXCEPT !.prog = "regenerate", !.outcome = "running",
                                     !.months = months]
    /\ pc' = "regen_load"
    /\ UNCHANGED <<input_folder, ckptVars, loop_month, scan_cache, month_outputs>>
    /\ UNCHANGED outsidePipe

RegenStart == \E months \in RescanMonths, no_scan \in BOOLEAN : RegenRun(months, no_scan)

\* regenerate_month.main, line 138: CheckpointManager(CHECKPOINT_FILE)
RegenLoad ==
    /\ pc = "regen_load"
    /\ checkpoint_data' = load_checkpoint(checkpoint_file)
    /\ run' = [run EXCEPT
                   !.loaded_completed = is_complete(load_checkpoint(checkpoint_file))]
    /\ pc' = "regen_invalidate"
    /\ UNCHANGED <<input_folder, assignment_store, checkpoint_file, loop_month,
                   scan_cache, month_outputs>>
    /\ UNCHANGED outsidePipe

\* regenerate_month.main, lines 141-149: the month videos of the list are
\* removed and the months invalidated.
RegenInvalidate ==
    /\ pc = "regen_invalidate"
    /\ month_outputs' = month_outputs \ run.months
    /\ SetMgr(invalidate_months(Mgr, run.months))
    /\ pc' = "load_assignments"
    /\ UNCHANGED <<input_folder, assignment_store, loop_month, run, scan_cache>>
    /\ UNCHANGED outsidePipe

\* A buggy handler that sets the completed flag.
on_exception_marks_all(mgr, prog) == mark_all_complete(mgr)

\* A buggy handler that records the month under way as done.
on_exception_marks_month(mgr, prog) == mark_month_complete(mgr, loop_month)

\* generate_recap_optimized.main, lines 145-154: both except clauses save the
\* checkpoint (and the program ends); regenerate_month has none.
on_exception(mgr, prog) == IF prog = "recap" THEN save(mgr) ELSE mgr

\* A buggy handler that ends the program normally whatever was raised.
outcome_of_swallowed(exception) == "interrupted"

\* generate_recap_optimized.main, lines 145-154: after KeyboardInterrupt the
\* program ends normally, any other exception is raised again after the save.
outcome_of(exception) ==
    IF exception = "KeyboardInterrupt" THEN "interrupted" ELSE "failed"

\* The run stopped by an exception at the position it is at.
StoppedRun(exception) ==
    [run EXCEPT !.stopped_at = pc, !.error = exception, !.outcome = outcome_of(exception)]

\* generate_optimized, lines 186-195: load_assignments raises
\* FileNotFoundError when there is no assignment JSON.
LoadAssignments ==
    /\ pc = "load_assignments"
    /\ IF assignment_store = None
       THEN /\ pc' = "exited"
            /\ run' = StoppedRun("FileNotFoundError")
            /\ SetMgr(on_exception(Mgr, run.prog))
            /\ UNCHANGED loop_month
       ELSE /\ pc' = "month"
            /\ loop_month' = 1
            /\ UNCHANGED <<run, ckptVars>>
    /\ UNCHANGED <<input_folder, assignment_store, scan_cache, month_outputs>>
    /\ UNCHANGED outsidePipe

\* generate_optimized, lines 197-208: one turn of the loop up to the call of
\* generate_month_video, which returns None at once for a month without media.
MonthLoop ==
    /\ pc = "month"
    /\ loop_month <= NumMonths
    /\ IF skip_month(checkpoint_data, loop_month, month_outputs)
       THEN /\ loop_month' = loop_month + 1
            /\ run' = [run EXCEPT !.month_videos = Append(@, loop_month)]
            /\ UNCHANGED pc
       ELSE /\ run' = [Did(run, {"render"}, is_complete(checkpoint_data)) EXCEPT
                           !.invoked = @ \cup {loop_month}]
            /\ IF month_dates(Val(assignment_store), loop_month) = {}
               THEN loop_month' = loop_month + 1 /\ UNCHANGED pc
               ELSE pc' = "render" /\ UNCHANGED loop_month
    /\ UNCHANGED <<input_folder, assignment_store, ckptVars, scan_cache, month_outputs>>
    /\ UNCHANGED outsidePipe

\* generate_month_video, lines 92-172: the clips are rendered and the month
\* video is compiled to the end.
RenderMonth ==
    /\ pc = "render"
    /\ month_outputs' = month_outputs \cup {loop_month}
    /\ run' = [run EXCEPT !.compiled = @ \cup {loop_month}]
    /\ pc' = "compiled"
    /\ UNCHANGED <<input_folder, assignment_store, ckptVars, loop_month, scan_cache>>
    /\ UNCHANGED outsidePipe

\* generate_optimized, lines 210-212: month_videos.append(month_video) and
\* mark_month_complete(month)
MarkMonth ==
    /\ pc = "compiled"
    /\ run' = [run EXCEPT !.month_videos = Append(@, loop_month)]
    /\ SetMgr(mark_month_complete(Mgr, loop_month))
    /\ loop_month' = loop_month + 1
    /\ pc' = "month"
    /\ UNCHANGED <<input_folder, assignment_store, scan_cache, month_outputs>>
    /\ UNCHANGED outsidePipe

\* month_videos at the end of the loop: the skipped months and the compiled ones
month_videos(r) == ((1..NumMonths) \ r.invoked) \cup r.compiled

\* generate_optimized, line 224: the final concatenation returns or raises
\* CalledProcessError, which it does when there is no month video to
\* concatenate; regenerate_month ends after it.
FinalCompile ==
    /\ pc = "month"
    /\ loop_month > NumMonths
    /\ \E ok \in BOOLEAN :
          IF ~ok \/ month_videos(run) = {}
          THEN /\ pc' = "exited"
               /\ run' = [run EXCEPT !.stopped_at = "final", !.error = "CalledProcessError",
                                 !.outcome = outcome_of("CalledProcessError")]
               /\ SetMgr(on_exception(Mgr, run.prog))
          ELSE IF run.prog = "recap"
          THEN pc' = "mark_all" /\ UNCHANGED <<run, ckptVars>>
          ELSE /\ pc' = "exited"
               /\ run' = [run EXCEPT !.outcome = "done"]
               /\ UNCHANGED ckptVars
    /\ UNCHANGED <<input_folder, assignment_store, loop_month, scan_cache, month_outputs>>
    /\ UNCHANGED outsidePipe

\* generate_recap_optimized.main, line 122: checkpoint_manager.mark_all_complete()
MarkAll ==
    /\ pc = "mark_all"
    /\ SetMgr(mark_all_complete(Mgr))
    /\ pc' = "cleanup"
    /\ UNCHANGED <<input_folder, assignment_store, loop_month, run, scan_cache,
                   month_outputs>>
    /\ UNCHANGED outsidePipe

\* generate_recap_optimized.main, lines 124-143: cleanup_temp_files() and the
\* final summary, after which the program ends.
Cleanup ==
    /\ pc = "cleanup"
    /\ run' = [run EXCEPT !.outcome = "done"]
    /\ pc' = "exited"
    /\ UNCHANGED <<input_folder, assignment_store, ckptVars, loop_month, scan_cache,
                   month_outputs>>
    /\ UNCHANGED outsidePipe

\* What stopping at this point leaves of the month video being compiled:
\* nothing new, or an unfinished file.
OutputsWhenStopped ==
    IF pc = "render"
    THEN {month_outputs, month_outputs \cup {loop_month}}
    ELSE {month_outputs}

\* KeyboardInterrupt at some point of the run, and the except clause.
Interrupt ==
    /\ pc \in RunningPcs
    /\ pc' = "exited"
    /\ run' = StoppedRun("KeyboardInterrupt")
    /\ SetMgr(on_exception(Mgr, run.prog))
    /\ month_outputs' \in OutputsWhenStopped
    /\ UNCHANGED <<input_folder, assignment_store, loop_month, scan_cache>>
    /\ UNCHANGED outsidePipe

\* An error nothing else handles at some point of the run, and the except
\* clause.
Fail ==
    /\ pc \in RunningPcs
    /\ pc' = "exited"
    /\ run' = StoppedRun("Exception")
    /\ SetMgr(on_exception(Mgr, run.prog))
    /\ month_outputs' \in OutputsWhenStopped
    /\ UNCHANGED <<input_folder, assignment_store, loop_month, scan_cache>>
    /\ UNCHANGED outsidePipe

\* The process is gone, and its manager with it.
Exit ==
    /\ pc = "exited"
    /\ pc' = "idle"
    /\ loop_month' = 0
    /\ run' = NoRun
    /\ checkpoint_data' = create_empty_checkpoint
    /\ render' = NoRender
    /\ UNCHANGED <<input_folder, assignment_store, checkpoint_file, scan_cache,
                   month_outputs>>
    /\ UNCHANGED outsideRun

(***************************************************************************)
(* The concatenation: generate_video.VideoGenerator.compile_final_video,   *)
(* lines 705-770, with the ffmpeg process it starts                        *)
(***************************************************************************)

\* The lines a pipe holds before a write to it blocks, and the most lines
\* ffmpeg writes to one pipe.
PipeCapacity == 2
MaxWrites == 3

\* No compile_final_video is under way.
NoConcat ==
    [main |-> "none", thread |-> "none", tool |-> "none", writing |-> "none",
     out_left |-> 0, err_left |-> 0, stdout |-> 0, stderr |-> 0, returncode |-> 0]

IdleConcat == concat = NoConcat

\* subprocess.Popen, lines 705-711: ffmpeg runs with a pipe for its progress
\* (stdout) and one for its diagnostics (stderr); how much it will write to
\* each is its affair.
InitConcat ==
    \E out_left, err_left \in 0..MaxWrites :
        concat = [NoConcat EXCEPT !.main = "start_thread", !.thread = "not_started",
                                  !.tool = "running", !.out_left = out_left,
                                  !.err_left = err_left]

\* A buggy compile_final_video that starts no thread for stderr.
start_stderr_thread_forgotten(c) == c

\* lines 716-722: threading.Thread(target=read_stderr, daemon=True).start()
start_stderr_thread(c) == [c EXCEPT !.thread = "reading"]

StartStderrThread ==
    /\ concat.main = "start_thread"
    /\ concat' = [start_stderr_thread(concat) EXCEPT !.main = "readline"]
    /\ UNCHANGED <<diffVars, ckptVars, ckptLog, fnVars, dateVars, assignVars, pipeVars,
                   disk, clipVars>>

\* ffmpeg turns to its next write, a line of progress or of diagnostics,
ToolBeginsWrite ==
    /\ concat.tool = "running"
    /\ concat.writing = "none"
    /\ \E pipe \in {"stdout", "stderr"} :
          /\ IF pipe = "stdout" THEN concat.out_left > 0 ELSE concat.err_left > 0
          /\ concat' = [concat EXCEPT !.writing = pipe]
    /\ UNCHANGED <<diffVars, ckptVars, ckptLog, fnVars, dateVars, assignVars, pipeVars,
                   disk, clipVars>>

\* which the pipe accepts when it is not full (the write blocks until then),
ToolWrites ==
    /\ concat.tool = "running"
    /\ \/ /\ concat.writing = "stdout"
          /\ concat.stdout < PipeCapacity
          /\ concat' = [concat EXCEPT !.stdout = @ + 1, !.out_left = @ - 1,
                                      !.writing = "none"]
       \/ /\ concat.writing = "stderr"
          /\ concat.stderr < PipeCapacity
          /\ concat' = [concat EXCEPT !.stderr = @ + 1, !.err_left = @ - 1,
                                      !.writing = "none"]
    /\ UNCHANGED <<diffVars, ckptVars, ckptLog, fnVars, dateVars, assignVars, pipeVars,
                   disk, clipVars>>

\* and ends, which closes its ends of the pipes, when all is written.
ToolExits ==
    /\ concat.tool = "running"
    /\ concat.writing = "none"
    /\ concat.out_left = 0
    /\ concat.err_left = 0
    /\ \E returncode \in {0, 1} :
          concat' = [concat EXCEPT !.tool = "exited", !.returncode = returncode]
    /\ UNCHANGED <<diffVars, ckptVars, ckptLog, fnVars, dateVars, assignVars, pipeVars,
                   disk, clipVars>>

\* lines 724-728: line = process.stdout.readline(), which blocks on an empty
\* pipe that is still open and returns '' at its end.
Readline ==
    /\ concat.main = "readline"
    /\ \/ /\ concat.stdout > 0
          /\ concat' = [concat EXCEPT !.stdout = @ - 1]
       \/ /\ concat.stdout = 0
          /\ concat.tool = "exited"
          /\ concat' = [concat EXCEPT !.main = "wait"]
    /\ UNCHANGED <<diffVars, ckptVars, ckptLog, fnVars, dateVars, assignVars, pipeVars,
                   disk, clipVars>>

\* read_stderr, lines 718-720: for line in process.stderr
ReadStderr ==
    /\ concat.thread = "reading"
    /\ \/ /\ concat.stderr > 0
          /\ concat' = [concat EXCEPT !.stderr = @ - 1]
       \/ /\ concat.stderr = 0
          /\ concat.tool = "exited"
          /\ concat' = [concat EXCEPT !.thread = "done"]
    /\ UNCHANGED <<diffVars, ckptVars, ckptLog, fnVars, dateVars, assignVars, pipeVars,
                   disk, clipVars>>

\* line 752: process.wait()
ProcessWait ==
    /\ concat.main = "wait"
    /\ concat.tool = "exited"
    /\ concat' = [concat EXCEPT !.main = "join"]
    /\ UNCHANGED <<diffVars, ckptVars, ckptLog, fnVars, dateVars, assignVars, pipeVars,
                   disk, clipVars>>

\* lines 754-770: stderr_thread.join(timeout=5) gives up after five seconds;
\* then CalledProcessError is raised for a returncode other than 0.
JoinAndReturn ==
    /\ concat.main = "join"
    /\ concat' = [concat EXCEPT !.main = IF concat.returncode # 0 THEN "raised"
                                         ELSE "returned"]
    /\ UNCHANGED <<diffVars, ckptVars, ckptLog, fnVars, dateVars, assignVars, pipeVars,
                   disk, clipVars>>

\* The main thread, the stderr thread and ffmpeg.
MainThread == StartStderrThread \/ Readline \/ ProcessWait \/ JoinAndReturn
Tool == ToolBeginsWrite \/ ToolWrites \/ ToolExits

NextConcat ==
    \/ MainThread
    \/ ReadStderr
    \/ Tool

(***************************************************************************)
(* The clips of a month: generate_optimized.generate_month_video,          *)
(* get_processed_clips and generate_video.process_media_file               *)
(***************************************************************************)

\* The index of the first element of s that is c, 0 if there is none
FirstIndex(s, c) ==
    IF \E i \in 1..Len(s) : s[i] = c
    THEN CHOOSE i \in 1..Len(s) : s[i] = c /\ \A j \in 1..(i - 1) : s[j] # c
    ELSE 0

\* The index of the last "." of a name, 0 if there is none
LastDot(name) ==
    IF \E i \in 1..Len(name) : name[i] = "."
    THEN CHOOSE i \in 1..Len(name) :
             name[i] = "." /\ \A j \in (i + 1)..Len(name) : name[j] # "."
    ELSE 0

\* os.path.splitext(filename)[0]
filename_base(filename) ==
    IF LastDot(filename) > 1 THEN SubSeq(filename, 1, LastDot(filename) - 1)
    ELSE filename

\* str.replace('.mp4', '')
RECURSIVE replace_mp4(_)
replace_mp4(name) ==
    IF Len(name) < 4 THEN name
    ELSE IF SubSeq(name, 1, 4) = <<".", "m", "p", "4">>
    THEN replace_mp4(SubSeq(name, 5, Len(name)))
    ELSE <<Head(name)>> \o replace_mp4(Tail(name))

\* A buggy key of a clip that keeps its numeric prefix.
original_name_with_prefix(clip) == replace_mp4(clip)

\* get_processed_clips, lines 29-31: the key of a clip file name, which is what
\* follows its first "_" without ".mp4".
original_name(clip) ==
    replace_mp4(SubSeq(clip, FirstIndex(clip, "_") + 1, Len(clip)))

\* f"{index:04d}_{os.path.splitext(filename)[0]}.mp4" of process_media_file
output_filename(index, filename) ==
    Pad4(index) \o <<"_">> \o filename_base(filename) \o <<".", "m", "p", "4">>

\* f"separator_{month:02d}.mp4"
SeparatorPrefix == <<"s", "e", "p", "a", "r", "a", "t", "o", "r", "_">>
separator_path(month) == SeparatorPrefix \o Pad2(month) \o <<".", "m", "p", "4">>

\* get_processed_clips, lines 25-27: the files of the folder that go into the
\* dict end with ".mp4", do not start with "separator_" and hold a "_".
is_clip_name(filename) ==
    /\ Len(filename) >= 4
    /\ SubSeq(filename, Len(filename) - 3, Len(filename)) = <<".", "m", "p", "4">>
    /\ ~(Len(filename) >= 10 /\ SubSeq(filename, 1, 10) = SeparatorPrefix)
    /\ FirstIndex(filename, "_") > 0

\* get_processed_clips: every dict {original_name: clip} a listing of the
\* folder can give; of two clips with one key the one listed last stays.
processed_clips(folder) ==
    {cache \in [{original_name(clip) : clip \in {f \in folder : is_clip_name(f)}}
                    -> {f \in folder : is_clip_name(f)}] :
        \A key \in DOMAIN cache : original_name(cache[key]) = key}

\* A buggy order of the dates: latest first.
RECURSIVE SortedKeys_descending(_)
SortedKeys_descending(keys) ==
    IF keys = {} THEN <<>>
    ELSE LET greatest == CHOOSE k \in keys : \A other \in keys \ {k} : StrLess(other, k)
         IN  <<greatest>> \o SortedKeys_descending(keys \ {greatest})

\* sorted(): the strings of a set in ascending order
RECURSIVE SortedKeys(_)
SortedKeys(keys) ==
    IF keys = {} THEN <<>>
    ELSE LET least == CHOOSE k \in keys : \A other \in keys \ {k} : StrLess(k, other)
         IN  <<least>> \o SortedKeys(keys \ {least})

\* The media_info records the loops of lines 105-108 go through: the dates of
\* the month in order, the list of each date in order.
RECURSIVE month_items(_, _)
month_items(assignments, dates) ==
    IF dates = <<>> THEN <<>>
    ELSE assignments[Head(dates)] \o month_items(assignments, Tail(dates))

\* clip_index = (month - 1) * 1000
first_clip_index(month) == (month - 1) * 1000

\* A buggy collection of the clips that also takes the None of a failed item.
append_clip_always(month_clips, processed_clip) == Append(month_clips, processed_clip)

\* lines 121-123: if processed_clip: month_clips.append(processed_clip)
append_clip(month_clips, processed_clip) ==
    IF processed_clip = None THEN month_clips
    ELSE Append(month_clips, processed_clip)

\* generate_month_video, lines 92-103: the separator is made if it is not in
\* the folder, then the cache of the clips in the folder and the first clip
\* index.
StartMonthClips(folder) ==
    /\ processed_folder' = folder
    /\ UNCHANGED clip_content
    /\ \E cache \in processed_clips(folder) :
          render' = [NoRender EXCEPT
                         !.month = loop_month,
                         !.listed = folder,
                         !.cache = cache,
                         !.items = month_items(
                                       Val(assignment_store),
                                       SortedKeys(month_dates(Val(assignment_store),
                                                              loop_month))),
                         !.pos = 1,
                         !.clip_index = first_clip_index(loop_month)]
    /\ pc' = "items"
    /\ UNCHANGED <<run, ckptVars>>

\* create_month_separator raises what ffmpeg or the image library raised.
BuildClipCache ==
    /\ pc = "render"
    /\ \/ StartMonthClips(processed_folder \cup {separator_path(loop_month)})
       \/ /\ separator_path(loop_month) \notin processed_folder
          /\ run' = StoppedRun("CalledProcessError")
          /\ pc' = "exited"
          /\ SetMgr(on_exception(Mgr, run.prog))
          /\ UNCHANGED <<processed_folder, render, clip_content>>
    /\ UNCHANGED <<input_folder, assignment_store, loop_month, scan_cache, month_outputs>>
    /\ UNCHANGED <<diffVars, ckptLog, fnVars, dateVars, rescan_result, disk, concat>>

\* The date_str of the loop of line 105 a record is reached under: the key of
\* its bucket, which is the day of its date.
date_str(item) == SubSeq(item.date, 1, 10)

\* A clip as the ffmpeg call of process_media_file leaves it: rendered from the
\* media file, not normalized by normalize_clip, without date caption.
rendered_clip(filepath) == [source |-> filepath, normalized |-> FALSE, caption |-> None]

\* The clip files after process_media_file wrote the clip (-y: a file of that
\* name is overwritten).
written_clip(content, clip, filepath) ==
    [name \in DOMAIN content \cup {clip} |->
        IF name = clip THEN rendered_clip(filepath) ELSE content[name]]

\* The clip files after os.remove of one of them.
removed_clip(content, clip) == [name \in DOMAIN content \ {clip} |-> content[name]]

\* One item of the loops: the clip with processed_clip for the item, got from
\* the cache (got = TRUE) or from process_media_file, which wrote it.
ItemDone(item, processed_clip, got) ==
    /\ render' = [render EXCEPT
                      !.pos = @ + 1,
                      !.month_clips = append_clip(@, processed_clip),
                      !.month_clip_dates = IF processed_clip = None THEN @
                                           ELSE Append(@, date_str(item)),
                      !.clip_index = IF processed_clip = None THEN @ ELSE @ + 1,
                      !.requests = IF got THEN @ ELSE @ \cup {item.filepath},
                      !.hits = IF got
                               THEN @ \cup {[filepath |-> item.filepath,
                                             existed |-> Val(processed_clip)
                                                             \in processed_folder]}
                               ELSE @,
                      !.failed = IF processed_clip = None
                                 THEN @ \cup {item.filepath} ELSE @]
    /\ processed_folder' = IF got \/ processed_clip = None THEN processed_folder
                           ELSE processed_folder \cup {Val(processed_clip)}
    /\ clip_content' = IF got \/ processed_clip = None THEN clip_content
                       ELSE written_clip(clip_content, Val(processed_clip), item.filepath)

\* generate_month_video, lines 108-124: the item at pos is looked up in the
\* cache by the base of its file name; a miss goes to process_media_file,
\* which returns the path of the clip it wrote or None.
ProcessItem ==
    /\ pc = "items"
    /\ render.pos <= Len(render.items)
    /\ \E item \in {render.items[render.pos]} :
          IF filename_base(item.filename) \in DOMAIN render.cache
          THEN ItemDone(item, Some(render.cache[filename_base(item.filename)]), TRUE)
          ELSE \E ok \in BOOLEAN :
                  ItemDone(item,
                           IF ok THEN Some(output_filename(render.clip_index, item.filename))
                           ELSE None,
                           FALSE)
    /\ UNCHANGED <<input_folder, assignment_store, ckptVars, pc, loop_month, run,
                   scan_cache, month_outputs>>
    /\ UNCHANGED <<diffVars, ckptLog, fnVars, dateVars, rescan_result, disk, concat>>

\* The clips of month_clips that shutil.copy2 cannot find.
missing_clips(month_clips, folder) ==
    {i \in 1..Len(month_clips) : Val(month_clips[i]) \notin folder}

\* A buggy path of the working copy: the clip of the processed folder itself.
TempClip_in_place(i, clip) == [folder |-> "processed", name |-> clip]

\* A clip file of the processed folder, and the working copy of the clip at i
\* of month_clips in the temp folder of the month: f"{i:04d}_{basename}".
ProcessedClip(clip) == [folder |-> "processed", name |-> clip]
TempClip(i, clip) == [folder |-> "temp", name |-> Pad4(i) \o <<"_">> \o clip]

\* final_clips_for_month, lines 137-166: the separator as it is, then the
\* working copy of every clip in the order of month_clips.
final_clips_for_month(month, month_clips) ==
    <<ProcessedClip(separator_path(month))>>
        \o [i \in 1..Len(month_clips) |-> TempClip(i, Val(month_clips[i]))]

\* The clip files as files of the two folders, and back.
files_of(content) ==
    [path \in {ProcessedClip(name) : name \in DOMAIN content} |-> content[path.name]]

processed_of(files) ==
    [name \in {path.name : path \in {q \in DOMAIN files : q.folder = "processed"}} |->
        files[ProcessedClip(name)]]

\* shutil.copy2(src, dst)
copy2(files, src, dst) ==
    [path \in DOMAIN files \cup {dst} |-> IF path = dst THEN files[src] ELSE files[path]]

\* normalize_clip(input_path): ffmpeg writes the normalized clip next to the
\* input, which is removed and replaced by it; when ffmpeg fails the exception
\* is logged and the input stays.
normalize_clip(files, input_path, ok) ==
    IF ok THEN [files EXCEPT ![input_path].normalized = TRUE] ELSE files

\* add_date_caption(input_path, date_str): the same with the drawtext filter.
add_date_caption(files, input_path, date, ok) ==
    IF ok THEN [files EXCEPT ![input_path].caption = Some(date)] ELSE files

\* os.path.basename(clip).endswith(f"_{base}.mp4")
clip_of_base(clip, base) ==
    /\ Len(clip) >= Len(base) + 5
    /\ SubSeq(clip, Len(clip) - Len(base) - 4, Len(clip)) = <<"_">> \o base \o <<".", "m", "p", "4">>

\* lines 146-151 and 159: the first record of the day whose base name the clip
\* ends with tells the type, and only a video or a GIF is normalized.
needs_normalize(clip, bucket) ==
    /\ \E n \in 1..Len(bucket) : clip_of_base(clip, filename_base(bucket[n].filename))
    /\ bucket[CHOOSE n \in 1..Len(bucket) :
                 /\ clip_of_base(clip, filename_base(bucket[n].filename))
                 /\ \A k \in 1..(n - 1) :
                        ~clip_of_base(clip, filename_base(bucket[k].filename))].type
           \in {"video", "gif"}

\* lines 153-164 for the clip at i: the clip is copied to the temp folder of
\* the month, the copy is normalized if need be and captioned.
working_copy(files, i, clip, date, bucket, norm_ok, caption_ok) ==
    add_date_caption(
        IF needs_normalize(clip, bucket)
        THEN normalize_clip(copy2(files, ProcessedClip(clip), TempClip(i, clip)),
                            TempClip(i, clip), norm_ok)
        ELSE copy2(files, ProcessedClip(clip), TempClip(i, clip)),
        TempClip(i, clip), date, caption_ok)

\* The loop of lines 139-166 over the first n clips of the month.
RECURSIVE working_copies(_, _, _, _, _, _, _)
working_copies(files, n, month_clips, dates, assignments, norm_ok, caption_ok) ==
    IF n = 0 THEN files
    ELSE working_copy(
             working_copies(files, n - 1, month_clips, dates, assignments, norm_ok,
                            caption_ok),
             n, Val(month_clips[n]), dates[n], assignments[dates[n]],
             norm_ok, caption_ok)

\* The clips the loop gets through: all of them, or those before the first
\* one shutil.copy2 does not find.
copied_clips(month_clips, folder) ==
    IF missing_clips(month_clips, folder) = {} THEN Len(month_clips)
    ELSE (CHOOSE i \in missing_clips(month_clips, folder) :
              \A j \in missing_clips(month_clips, folder) : i <= j) - 1

\* generate_month_video, lines 126-172: every clip is copied, normalized and
\* captioned and the month video is compiled; copy2 raises for a clip that is
\* not there, ffmpeg can fail and does without the separator. The ffmpeg of
\* normalize_clip works for the clips of the month or for none of them, and so
\* does the one of add_date_caption.
CompileMonth ==
    /\ pc = "items"
    /\ render.pos > Len(render.items)
    /\ \E norm_ok, caption_ok \in BOOLEAN :
          clip_content' =
              processed_of(working_copies(files_of(clip_content),
                                          copied_clips(render.month_clips, processed_folder),
                                          render.month_clips, render.month_clip_dates,
                                          Val(assignment_store), norm_ok, caption_ok))
    /\ \E ok \in BOOLEAN :
          IF /\ ok
             /\ missing_clips(render.month_clips, processed_folder) = {}
             /\ separator_path(loop_month) \in processed_folder
          THEN /\ month_outputs' = month_outputs \cup {loop_month}
               /\ run' = [run EXCEPT !.compiled = @ \cup {loop_month}]
               /\ render' = [render EXCEPT !.final_clips =
                                 final_clips_for_month(loop_month, render.month_clips)]
               /\ pc' = "compiled"
               /\ UNCHANGED ckptVars
          ELSE /\ month_outputs' \in {month_outputs, month_outputs \cup {loop_month}}
               /\ UNCHANGED render
               /\ run' = StoppedRun(
                            IF missing_clips(render.month_clips, processed_folder) # {}
                            THEN "FileNotFoundError" ELSE "CalledProcessError")
               /\ pc' = "exited"
               /\ SetMgr(on_exception(Mgr, run.prog))
    /\ UNCHANGED <<input_folder, assignment_store, loop_month, scan_cache>>
    /\ UNCHANGED <<diffVars, ckptLog, fnVars, dateVars, rescan_result, disk, concat,
                   processed_folder>>

\* The most files the input folder holds in the runs that render clips.
MaxRenderFiles == 3

RenderFolders ==
    {F \in SUBSET RenderFiles :
        /\ Cardinality(F) <= MaxRenderFiles
        /\ \A f, g \in F : FilePath(f) = FilePath(g) => f = g}

\* Between two runs the user puts a file into the input folder or overwrites
\* one that is there,
UserPutsFile ==
    /\ pc = "idle"
    /\ \E file \in RenderFiles \ input_folder :
          \E folder \in {{f \in input_folder : FilePath(f) # FilePath(file)} \cup {file}} :
              /\ folder \in RenderFolders
              /\ input_folder' = folder
    /\ UNCHANGED <<assignment_store, ckptVars, pc, loop_month, run, scan_cache, month_outputs>>
    /\ UNCHANGED outsidePipe

\* and at any time deletes a clip file of the processed folder.
UserDeletesClip ==
    /\ pc \in {"idle", "items"}
    /\ \E clip \in processed_folder :
          /\ processed_folder' = processed_folder \ {clip}
          /\ clip_content' = removed_clip(clip_content, clip)
    /\ UNCHANGED <<input_folder, assignment_store, ckptVars, pipeVars, render>>
    /\ UNCHANGED <<diffVars, ckptLog, fnVars, dateVars, rescan_result, disk, concat>>

\* python regenerate_month.py 7, with or without --no-scan
RegenerateJuly == \E no_scan \in BOOLEAN : RegenRun({7}, no_scan)

\* The two programs, run to their end, with the clips of each month.
NextRender ==
    \/ UserPutsFile
    \/ UserDeletesClip
    \/ RecapStart
    \/ UpdateScan
    \/ MarkScan
    \/ UpdateAssign
    \/ FirstRunCheck
    \/ RegenerateJuly
    \/ RegenLoad
    \/ RegenInvalidate
    \/ LoadAssignments
    \/ MonthLoop
    \/ BuildClipCache
    \/ ProcessItem
    \/ CompileMonth
    \/ MarkMonth
    \/ FinalCompile
    \/ MarkAll
    \/ Cleanup
    \/ Exit

Next ==
    \/ UserAddsFile
    \/ UserRemovesFile
    \/ UserDeletesStore
    \/ UserDeletesOutput
    \/ RecapStart
    \/ UpdateScan
    \/ MarkScan
    \/ UpdateAssign
    \/ FirstRunCheck
    \/ RegenStart
    \/ RegenLoad
    \/ RegenInvalidate
    \/ LoadAssignments
    \/ MonthLoop
    \/ RenderMonth
    \/ MarkMonth
    \/ FinalCompile
    \/ MarkAll
    \/ Cleanup
    \/ Interrupt
    \/ Fail
    \/ Exit

InitSpec == InitPipe /\ IdleDiff /\ IdleCkptLog /\ IdleFn /\ IdleDate /\ rescan_result = None
    /\ IdleDisk /\ IdleClips /\ IdleConcat

Spec == InitSpec /\ [][Next]_vars

SpecRender == InitSpec /\ [][NextRender]_vars

\* ---------------------------------------------------------------------------
\* The names of the clips: process_media_file names a clip after its index and
\* the file, get_processed_clips reads the name back.

\* Bound of the number of pieces of a drawn stem.
MaxKeySegments == 2

\* The pieces of a stem: a letter, the "_" and the text ".mp4".
KeySegments == {<<"a">>, <<"_">>, <<".", "m", "p", "4">>}

KeyStems ==
    {Concat(segs) : segs \in UNION {[1..n -> KeySegments] : n \in 1..MaxKeySegments}}

\* The media filenames: a stem and the extension of a photo or of a video.
KeyFileNames == {stem \o ExtChars(ext) : stem \in KeyStems, ext \in {".jpg", ".mov"}}

\* Indexes of clips: the first of January, one of July, the first of December.
KeyIndexes == {0, 6001, 11000}

\* process_media_file, lines 489-490 and the ffmpeg call: the clip of a file
\* is written to the processed folder under output_filename (here: one clip
\* next to the separators).
ProcessMediaFileWrites ==
    /\ {f \in processed_folder : is_clip_name(f)} = {}
    /\ \E index \in KeyIndexes, filename \in KeyFileNames :
          /\ processed_folder' = processed_folder \cup {output_filename(index, filename)}
          /\ clip_content' = written_clip(clip_content, output_filename(index, filename),
                                          filename)
    /\ UNCHANGED render
    /\ UNCHANGED <<diffVars, ckptVars, ckptLog, fnVars, dateVars, assignVars, pipeVars,
                   disk, concat>>

\* generate_month_video, lines 92-97: the separator of a month is written to
\* the processed folder.
CreateMonthSeparator ==
    /\ \E month \in {1, NumMonths} :
          /\ separator_path(month) \notin processed_folder
          /\ processed_folder' = processed_folder \cup {separator_path(month)}
    /\ UNCHANGED <<render, clip_content>>
    /\ UNCHANGED <<diffVars, ckptVars, ckptLog, fnVars, dateVars, assignVars, pipeVars,
                   disk, concat>>

\* One call of get_processed_clips on the folder as it is.
GetProcessedClips ==
    /\ \E cache \in processed_clips(processed_folder) :
          render' = [NoRender EXCEPT !.listed = processed_folder, !.cache = cache]
    /\ UNCHANGED <<processed_folder, clip_content>>
    /\ UNCHANGED <<diffVars, ckptVars, ckptLog, fnVars, dateVars, assignVars, pipeVars,
                   disk, concat>>

NextKey == ProcessMediaFileWrites \/ CreateMonthSeparator \/ GetProcessedClips

InitSpecKey ==
    /\ IdleDiff /\ IdleCkpt /\ IdleCkptLog /\ IdleFn /\ IdleDate /\ IdleAssign /\ IdlePipe
    /\ IdleDisk /\ IdleClips /\ IdleConcat

SpecKey == InitSpecKey /\ [][NextKey]_vars

InitSpecConcat ==
    /\ InitConcat /\ IdleDiff /\ IdleCkpt /\ IdleCkptLog /\ IdleFn /\ IdleDate
    /\ IdleAssign /\ IdlePipe /\ IdleDisk /\ IdleClips

\* Each of the two threads and ffmpeg goes on when it can: the scheduler of
\* the operating system lets no runnable thread or process wait for ever.
SpecConcat ==
    /\ InitSpecConcat
    /\ [][NextConcat]_vars
    /\ WF_vars(MainThread)
    /\ WF_vars(ReadStderr)
    /\ WF_vars(Tool)

\* python incremental_scan.py: incremental_media_scan(INPUT_FOLDER) from start
\* to end, with its locals current_files and previous_scan and what
\* detect_changes returned.
IncrementalScanMain ==
    /\ pc = "idle"
    /\ current_files' = current_signatures(input_folder)
    /\ previous_scan' = load_previous_scan(scan_cache)
    /\ diff_result' = Some(detect_changes(current_signatures(input_folder),
                                          load_previous_scan(scan_cache)))
    /\ scan_cache' = incremental_media_scan(input_folder, scan_cache).saved
    /\ UNCHANGED <<assignVars, ckptVars, pc, loop_month, run, month_outputs>>
    /\ UNCHANGED <<ckptLog, fnVars, dateVars, disk, concat, clipVars>>

\* The scan run again and again on a folder the user puts files into,
\* overwrites files of and removes files from.
NextScan ==
    \/ UserPutsFile
    \/ UserRemovesFile
    \/ IncrementalScanMain

SpecScan == InitSpec /\ [][NextScan]_vars

\* The most files the input folder holds in the runs that look at the order
\* of the clips.
MaxSequenceFiles == 4

\* Between two runs the user puts one of these files into the input folder.
UserPutsSequenceFile ==
    /\ pc = "idle"
    /\ \E file \in SequenceFiles \ input_folder :
          /\ Cardinality(input_folder) < MaxSequenceFiles
          /\ input_folder' = input_folder \cup {file}
    /\ UNCHANGED <<assignment_store, ckptVars, pc, loop_month, run, scan_cache, month_outputs>>
    /\ UNCHANGED outsidePipe

\* Between two runs the user puts the photo or the video of one base name into
\* the input folder.
UserPutsTwinFile ==
    /\ pc = "idle"
    /\ \E file \in TwinFiles \ input_folder : input_folder' = input_folder \cup {file}
    /\ UNCHANGED <<assignment_store, ckptVars, pc, loop_month, run, scan_cache, month_outputs>>
    /\ UNCHANGED outsidePipe

\* The full pipeline, run to its end with the clips of each month, on a
\* folder with these two files.
NextTwins ==
    \/ UserPutsTwinFile
    \/ RecapStart
    \/ UpdateScan
    \/ MarkScan
    \/ UpdateAssign
    \/ FirstRunCheck
    \/ LoadAssignments
    \/ MonthLoop
    \/ BuildClipCache
    \/ ProcessItem
    \/ CompileMonth
    \/ MarkMonth
    \/ FinalCompile
    \/ MarkAll
    \/ Cleanup
    \/ Exit

SpecTwins == InitSpec /\ [][NextTwins]_vars

\* The full pipeline, run to its end with the clips of each month, on a
\* folder that fills between the runs.
NextSequence ==
    \/ UserPutsSequenceFile
    \/ RecapStart
    \/ UpdateScan
    \/ MarkScan
    \/ UpdateAssign
    \/ FirstRunCheck
    \/ LoadAssignments
    \/ MonthLoop
    \/ BuildClipCache
    \/ ProcessItem
    \/ CompileMonth
    \/ MarkMonth
    \/ FinalCompile
    \/ MarkAll
    \/ Cleanup
    \/ Exit

SpecSequence == InitSpec /\ [][NextSequence]_vars

\* The steps of generate_recap_optimized, from its start to the end of the
\* process.
RecapSteps ==
    \/ RecapStart
    \/ UpdateScan
    \/ MarkScan
    \/ UpdateAssign
    \/ FirstRunCheck
    \/ LoadAssignments
    \/ MonthLoop
    \/ RenderMonth
    \/ MarkMonth
    \/ FinalCompile
    \/ MarkAll
    \/ Cleanup
    \/ Exit

\* The full pipeline run again and again on a folder the user adds files to
\* and removes files from between the runs.
NextRecap ==
    \/ UserAddsFile
    \/ UserRemovesFile
    \/ RecapSteps

\* A process that was started runs to its end, and the user keeps running
\* the program; nothing obliges the user to touch the folder.
SpecRecap == InitSpec /\ [][NextRecap]_vars /\ WF_vars(RecapSteps)

\* The full pipeline run again and again, interrupted by the user at any
\* position, on a folder the user adds files to and removes files from between
\* the runs.
NextResume ==
    \/ UserAddsFile
    \/ UserRemovesFile
    \/ RecapSteps
    \/ Interrupt

SpecResume == InitSpec /\ [][NextResume]_vars

InitSpecDiff == InitDiff /\ IdleCkpt /\ IdleCkptLog /\ IdleFn /\ IdleDate /\ IdleAssign /\ IdlePipe
    /\ IdleDisk /\ IdleClips /\ IdleConcat

SpecDiff == InitSpecDiff /\ [][NextDiff]_vars

\* C1: detect_changes returns pairwise disjoint new, changed and deleted sets,
\* new is the paths only in current, deleted the paths only in previous, and
\* every current path in neither new nor changed has the same signature in
\* previous.
C1_DiffPartition ==
    diff_result # None =>
        LET new == Val(diff_result).new
            changed == Val(diff_result).changed
            deleted == Val(diff_result).deleted
        IN  /\ new \cap changed = {}
            /\ new \cap deleted = {}
            /\ changed \cap deleted = {}
            /\ new = {p \in DiffPaths : p \in DOMAIN current_files
                                         /\ p \notin DOMAIN previous_scan}
            /\ deleted = {p \in DiffPaths : p \in DOMAIN previous_scan
                                             /\ p \notin DOMAIN current_files}
            /\ \A p \in DOMAIN current_files :
                   p \notin new \cup changed =>
                       /\ p \in DOMAIN previous_scan
                       /\ previous_scan[p] = current_files[p]

\* A call whose result has a new, a changed and an unchanged path.
C1_Witness ==
    /\ diff_result # None
    /\ Val(diff_result).new # {}
    /\ Val(diff_result).changed # {}
    /\ \E p \in DOMAIN current_files :
           p \notin Val(diff_result).new \cup Val(diff_result).changed

(***************************************************************************)
(* Checkpoint manager: specification and claims                            *)
(***************************************************************************)

InitSpecCkpt == InitCkpt /\ IdleDiff /\ IdleFn /\ IdleDate /\ IdleAssign /\ IdlePipe
    /\ IdleDisk /\ IdleClips /\ IdleConcat

SpecCkpt == InitSpecCkpt /\ [][NextCkpt]_vars

\* C2: after mark_month_complete(m) a manager loaded from the persisted file
\* reports month m complete; after invalidate_month(m) neither the live manager
\* nor a manager loaded from the file does.
C2_RoundTrip ==
    \A m \in CkptMonths :
        /\ ckpt_last = <<"mark_month_complete", m>> =>
               is_month_complete(load_checkpoint(checkpoint_file), m)
        /\ ckpt_last = <<"invalidate_month", m>> =>
               /\ ~is_month_complete(checkpoint_data, m)
               /\ ~is_month_complete(load_checkpoint(checkpoint_file), m)

\* invalidate_month(m) right after the mark_month_complete(m) that added m to a
\* list holding another month.
C2_Witness ==
    \E m \in CkptMonths :
        /\ ckpt_prev = <<"mark_month_complete", m>>
        /\ ckpt_last = <<"invalidate_month", m>>
        /\ Len(checkpoint_data.months_processed) > 0
        /\ checkpoint_file # None

\* The list is strictly ascending: sorted and without duplicates.
StrictlyAscending(q) == \A i, j \in 1..Len(q) : i < j => q[i] < q[j]

\* A step that is the call mark_month_complete(m) on a list that holds m.
MarkOfPresentMonth(m) ==
    /\ ckpt_last' = <<"mark_month_complete", m>>
    /\ ckpt_prev' = ckpt_last
    /\ is_month_complete(checkpoint_data, m)

\* C13: starting from an empty checkpoint, after any sequence of
\* mark_month_complete and invalidate_month calls months_processed is strictly
\* ascending (no duplicates), and mark_month_complete(m) on a list that holds
\* m leaves the list as it is.
C13_DoneSetSorted ==
    /\ [](StrictlyAscending(checkpoint_data.months_processed))
    /\ [][\A m \in CkptMonths :
              MarkOfPresentMonth(m) =>
                  checkpoint_data'.months_processed = checkpoint_data.months_processed]_vars

\* Month 1 marked a second time, in a list to which it was added after month 3.
C13_Witness ==
    /\ ckpt_prev = <<"mark_month_complete", 1>>
    /\ ckpt_last = <<"mark_month_complete", 1>>
    /\ checkpoint_data.months_processed = <<1, 3>>

SpecCkptIO == InitSpecCkpt /\ [][NextCkptIO]_vars

\* A step that is a call of the manager made while the disk fails.
CallOnFailingDisk ==
    /\ disk # "ok"
    /\ disk' = disk
    /\ ckpt_prev' = ckpt_last

\* C14: a call of mark_step_complete, mark_month_complete, invalidate_month or
\* mark_all_complete whose write of the checkpoint file fails does not raise,
\* and the checkpoint_data in memory holds the mutation afterwards.
C14_WriteFailureSwallowed ==
    [][CallOnFailingDisk =>
          /\ ckpt_last'[1] # "raised"
          /\ ckpt_last'[1] \in {"media_scan", "media_assignment"} =>
                 is_step_complete(checkpoint_data', ckpt_last'[1])
          /\ ckpt_last'[1] = "mark_month_complete" =>
                 is_month_complete(checkpoint_data', ckpt_last'[2])
          /\ ckpt_last'[1] = "invalidate_month" =>
                 ~is_month_complete(checkpoint_data', ckpt_last'[2])
          /\ ckpt_last'[1] = "mark_all_complete" => is_complete(checkpoint_data')]_vars

\* The first call ever is mark_month_complete(2) and its write failed half
\* way: the month is complete in memory and the file is no JSON document.
C14_Witness ==
    /\ disk = "full"
    /\ ckpt_prev = <<"start", 0>>
    /\ ckpt_last = <<"mark_month_complete", 2>>
    /\ is_month_complete(checkpoint_data, 2)
    /\ checkpoint_file = Some(TruncatedText)
    /\ ~is_month_complete(load_checkpoint(checkpoint_file), 2)

(***************************************************************************)
(* Filename date extraction: specification and claims                      *)
(***************************************************************************)

InitSpecFn == InitFn /\ IdleDiff /\ IdleCkpt /\ IdleCkptLog /\ IdleDate /\ IdleAssign /\ IdlePipe
    /\ IdleDisk /\ IdleClips /\ IdleConcat

SpecFn == InitSpecFn /\ [][NextFn]_vars

\* The position of the leftmost 8 digits, "_", 6 digits of s, 0 if there is none.
LeftmostShape(s) == LeftmostMatch(s, "pattern_with_time")

\* 8 digits, "_", 6 digits at i that are a real calendar date and time.
RealTokenAt(s, i) == MatchesDateTime(s, i) /\ ParseDateTime15(s, i) # None

\* No digit right before or right after the 15 characters at i.
Delimited(s, i) ==
    /\ i = 1 \/ s[i - 1] \notin Digits
    /\ i + 15 > Len(s) \/ s[i + 15] \notin Digits

\* What patterns 2 and 3 give.
FallThrough(s) == IF pattern_date8(s) # None THEN pattern_date8(s) ELSE pattern_dashed(s)

\* C7 as stated: a filename that contains a real YYYYMMDD_HHMMSS token (here:
\* exactly one, with no digit next to it) gives that date and time when its
\* year is in 2000..2030, and what patterns 2 and 3 give when it is not.
C7_AnyToken ==
    fn_result # None =>
        \A i \in 1..Len(fn_filename) :
            (/\ RealTokenAt(fn_filename, i)
             /\ Delimited(fn_filename, i)
             /\ \A j \in 1..Len(fn_filename) : RealTokenAt(fn_filename, j) => j = i)
            => LET token == ParseDateTime15(fn_filename, i)
               IN  IF Plausible(Val(token))
                   THEN Val(fn_result) = token
                   ELSE Val(fn_result) = FallThrough(fn_filename)

\* C7, amended: when the LEFTMOST 8 digits, "_", 6 digits of the filename are a
\* real date and time, the result is that date and time if its year is in
\* 2000..2030 and what patterns 2 and 3 give (the first 8 digits as a date, else
\* the first YYYY-MM-DD, else None) if it is not; every result has a year in
\* 2000..2030.
C7_LeftmostToken ==
    fn_result # None =>
        LET at == LeftmostShape(fn_filename)
        IN  /\ (at # 0 /\ RealTokenAt(fn_filename, at)) =>
                   LET token == ParseDateTime15(fn_filename, at)
                   IN  IF Plausible(Val(token))
                       THEN Val(fn_result) = token
                       ELSE Val(fn_result) = FallThrough(fn_filename)
            /\ Val(fn_result) # None => Plausible(Val(Val(fn_result)))

\* A call on a name whose leftmost 8 digits, "_", 6 digits start after the first
\* character and are a real date and time of a plausible year, which is returned.
C7_Witness ==
    /\ fn_result # None
    /\ LET at == LeftmostShape(fn_filename)
       IN  /\ at > 1
           /\ RealTokenAt(fn_filename, at)
           /\ Plausible(Val(ParseDateTime15(fn_filename, at)))
           /\ Val(fn_result) = ParseDateTime15(fn_filename, at)

(***************************************************************************)
(* Date resolver: specification and claims                                 *)
(***************************************************************************)

InitSpecDate == InitDate /\ IdleDiff /\ IdleCkpt /\ IdleCkptLog /\ IdleFn /\ IdleAssign /\ IdlePipe
    /\ IdleDisk /\ IdleClips /\ IdleConcat

SpecDate == InitSpecDate /\ [][NextDate]_vars

\* The two dates get_media_date weighs, read off the file.
FilenameDate == extract_date_from_filename(Basename(media_file))
MetadataDate ==
    IF media_file.meta[1] = "date" /\ media_file.ext \in ExifExts \cup FfprobeExts
    THEN Some(media_file.meta[2])
    ELSE None
InTargetYear(d) == d # None /\ Year(Val(d)) = TARGET_YEAR

\* C4: with a filename date and a metadata date both in the target year, the
\* result is the earlier of the two: the filename date with provenance
\* 'filename' when filename date <= metadata date, else the metadata date with
\* the metadata provenance.
C4_BothValidEarlier ==
    (date_result # None /\ InTargetYear(FilenameDate) /\ InTargetYear(MetadataDate)) =>
        /\ date_result[1] = "return"
        /\ DtLeq(date_result[2], Val(FilenameDate))
        /\ DtLeq(date_result[2], Val(MetadataDate))
        /\ IF DtLeq(Val(FilenameDate), Val(MetadataDate))
           THEN date_result[2] = Val(FilenameDate) /\ date_result[3] = "filename"
           ELSE /\ date_result[2] = Val(MetadataDate)
                /\ date_result[3] = (IF media_file.ext \in ExifExts
                                      THEN "exif" ELSE "video_metadata")

\* A resolved file whose filename date and metadata date are the same instant
\* of the target year.
C4_Witness ==
    /\ date_result # None
    /\ InTargetYear(FilenameDate)
    /\ MetadataDate = FilenameDate
    /\ date_result[3] = "filename"

C6_NeverRaises == date_result # None => date_result[1] = "return"

\* The extent of the failure of C6: a failure of the metadata reader never gets
\* out; the call raises exactly when there is neither a filename date nor a
\* metadata date and os.path.getmtime fails, and returns a (date, provenance)
\* pair otherwise.
RaisesOnlyOnStat ==
    date_result # None =>
        /\ date_result[1] = "raise" <=>
               (FilenameDate = None /\ MetadataDate = None
                /\ media_file.stat[1] = "oserror")
        /\ date_result[1] = "return" =>
               /\ date_result[2] # NoDate
               /\ date_result[3] \in {"filename", "exif", "video_metadata", "file_mtime"}
        /\ date_result[1] = "raise" => date_result[3] = "OSError"

\* A file whose metadata reader raised and that was resolved from its
\* modification time.
ReaderFailureAbsorbed ==
    /\ date_result # None
    /\ media_file.meta[1] = "raises"
    /\ media_file.ext \in ExifExts \cup FfprobeExts
    /\ date_result[1] = "return"
    /\ date_result[3] = "file_mtime"

(***************************************************************************)
(* Assignment store: specification and claims                              *)
(***************************************************************************)

InitSpecAssign ==
    InitAssign /\ IdleDiff /\ IdleCkpt /\ IdleCkptLog /\ IdleFn /\ IdleDate /\ IdlePipe
    /\ IdleDisk /\ IdleClips /\ IdleConcat

SpecAssign == InitSpecAssign /\ [][NextAssign]_vars

\* The buckets of the assignment store ({} while there is no store).
Buckets == IF assignment_store = None THEN EmptyDict ELSE Val(assignment_store)

\* The calendar day and the year a record's resolved date lies in.
RecordDay(rec) == SubSeq(rec.date, 1, 10)
KeyYear(date_key) == IntOf(date_key, 1, 4)

\* C3: in the assignment store, after assign_media_to_days and after any number
\* of rescan_month_files merges, every record of the bucket keyed d has a
\* resolved date on day d, and no key has a year other than the target year.
C3_DayBucket ==
    \A d \in DOMAIN Buckets :
        /\ KeyYear(d) = TARGET_YEAR
        /\ \A i \in 1..Len(Buckets[d]) : RecordDay(Buckets[d][i]) = d

\* A rescan has just merged a new file into a bucket that held a record
\* already, while a file of another year lies in the folder.
C3_Witness ==
    /\ assignment_store # None
    /\ rescan_result # None
    /\ \E d \in DOMAIN Val(rescan_result) :
          d \in DOMAIN Buckets /\ Len(Buckets[d]) > Len(Val(rescan_result)[d])
    /\ \E file \in input_folder :
          /\ file.ext \in ALL_SUPPORTED_FORMATS
          /\ extract_date_from_filename(Basename(file)) # None
          /\ Year(Val(extract_date_from_filename(Basename(file)))) # TARGET_YEAR

\* The records of a bucket are in ascending order of their date.
Ascending(bucket) ==
    \A i, j \in 1..Len(bucket) : i < j => ~StrLess(bucket[j].date, bucket[i].date)

\* The filepaths of a list of scanned files, and of a list of records.
ScanPaths(all_files) == [i \in 1..Len(all_files) |-> FilePath(all_files[i])]
RecordPaths(records) == [i \in 1..Len(records) |-> records[i].filepath]

\* Where a filepath stands in a list of filepaths.
PathIndex(paths, path) == CHOOSE i \in 1..Len(paths) : paths[i] = path

\* Records of equal date stand in the bucket in the order of their filepaths
\* in the list.
KeepsOrder(bucket, paths) ==
    \A i, j \in 1..Len(bucket) :
        (i < j /\ bucket[i].date = bucket[j].date) =>
            PathIndex(paths, bucket[i].filepath) < PathIndex(paths, bucket[j].filepath)

\* Every bucket assign_media_to_days makes of a scan is ascending, equal
\* dates in scan order.
AssignOrdered(all_files) ==
    \A k \in DOMAIN assign_media_to_days(all_files) :
        /\ Ascending(assign_media_to_days(all_files)[k])
        /\ KeepsOrder(assign_media_to_days(all_files)[k], ScanPaths(all_files))

\* The bucket of a day before the merge, empty if there was none.
BucketBefore(store, k) ==
    IF k \in DOMAIN load_existing(store) THEN load_existing(store)[k] ELSE <<>>

\* out is what rescan_month_files made of the store and the scan: every
\* bucket it wrote is ascending, the new records of equal date in scan order,
\* and records of equal date that were in the store before any new one.
MergeOrdered(store, all_files, out) ==
    \A k \in DOMAIN out[2] :
        /\ Ascending(Val(out[1])[k])
        /\ KeepsOrder(out[2][k], ScanPaths(all_files))
        /\ KeepsOrder(Val(out[1])[k],
                      RecordPaths(BucketBefore(store, k)) \o RecordPaths(out[2][k]))

\* C20: every bucket of the assignment store is in ascending order of the
\* resolved timestamp; assign_media_to_days on any scan of the folder, and
\* rescan_month_files on any scan and month list, leave records of equal
\* timestamp in scan order, for a merge the existing ones before the new ones.
C20_BucketOrdering ==
    /\ \A k \in DOMAIN Buckets : Ascending(Buckets[k])
    /\ \A listing \in Listings(input_folder) :
           /\ AssignOrdered(scan_media_folder(listing))
           /\ \A months_to_scan \in RescanMonths :
                  MergeOrdered(assignment_store, scan_media_folder(listing),
                               rescan_month_files(assignment_store,
                                                  scan_media_folder(listing),
                                                  months_to_scan))

\* A merge has put a new record into a bucket that held one of the same
\* second, and the bucket of the day also holds an earlier record.
C20_Witness ==
    /\ rescan_result # None
    /\ \E k \in DOMAIN Val(rescan_result) :
           /\ Len(Buckets[k]) >= 2
           /\ \E i \in 1..Len(Buckets[k]) :
                  /\ i < Len(Buckets[k])
                  /\ Buckets[k][i].date = Buckets[k][Len(Buckets[k])].date
                  /\ Buckets[k][Len(Buckets[k])].filepath
                         \in {rec.filepath : rec \in
                                 {Val(rescan_result)[k][n] : n \in 1..Len(Val(rescan_result)[k])}}
                  /\ Buckets[k][i].filepath
                         \notin {rec.filepath : rec \in
                                 {Val(rescan_result)[k][n] : n \in 1..Len(Val(rescan_result)[k])}}

(***************************************************************************)
(* The programs: claims                                                    *)
(***************************************************************************)

\* The checkpoint as persisted: what the next CheckpointManager will load.
Persisted == load_checkpoint(checkpoint_file)

\* A full-pipeline run has ended by KeyboardInterrupt or by an unhandled error.
RecapStopped ==
    /\ pc = "exited"
    /\ run.prog = "recap"
    /\ run.outcome \in {"interrupted", "failed"}

StepPcs == RunningPcs \ {"cleanup"}

\* C9: no scan, assignment or render step runs in a process whose checkpoint
\* has completed set: every process that loads such a checkpoint resets it to
\* the fresh state first.
C9_ResetBeforeSteps ==
    /\ ~run.did_stale
    /\ (run.loaded_completed /\ pc \in StepPcs) => ~is_complete(checkpoint_data)

\* C9, amended: every start of the full pipeline that loads a checkpoint with
\* completed set resets it to the fresh state, in memory and on disk, before
\* any scan, assignment or render step of that process.
C9_RecapResetBeforeSteps ==
    run.prog = "recap" =>
        /\ ~run.did_stale
        /\ (run.loaded_completed /\ pc = "phase1") =>
               /\ checkpoint_data = create_empty_checkpoint
               /\ checkpoint_file = None
               /\ run.did = {}
        /\ pc \in StepPcs => ~is_complete(checkpoint_data)

\* A full-pipeline run started on a completed checkpoint that has scanned,
\* assigned and rendered.
C9_Witness ==
    /\ run.prog = "recap"
    /\ run.loaded_completed
    /\ run.did = {"scan", "assign", "render"}
    /\ run.compiled # {}

\* The checkpoint of the running process: the loaded one, or the one on disk
\* while the process has not loaded it yet.
RunCheckpoint == IF pc = "idle" THEN Persisted ELSE checkpoint_data

BothStepsComplete ==
    /\ is_step_complete(RunCheckpoint, "media_scan")
    /\ is_step_complete(RunCheckpoint, "media_assignment")

\* A turn of the month loop that is not cut short.
MonthTurn ==
    /\ pc = "month"
    /\ loop_month <= NumMonths
    /\ pc' \in {"month", "render"}

\* run.did restricted to scanning and assigning
ScanAssign(r) == r.did \cap {"scan", "assign"}

\* The skip rule of C10: in a run whose checkpoint has completed unset,
\* generate_month_video is not invoked for month m if and only if m is in the
\* done-set and its month output file exists.
SkipRule ==
    (MonthTurn /\ ~is_complete(checkpoint_data)) =>
        (loop_month \notin run'.invoked
            <=> (is_month_complete(checkpoint_data, loop_month)
                 /\ loop_month \in month_outputs))

\* C10: the skip rule, and no scan and no assignment is executed when both
\* the media_scan and the media_assignment flag are set.
C10_ResumeSkips ==
    [][/\ SkipRule
       /\ (BothStepsComplete /\ ~is_complete(RunCheckpoint) /\ pc' \in RunningPcs) =>
              ScanAssign(run') = ScanAssign(IF pc = "idle" THEN NoRun ELSE run)]_vars

\* C10, amended: the skip rule, and in a full-pipeline run no scan and no
\* assignment is executed when both flags are set, except that without an
\* assignment JSON assign_media.main scans and assigns the folder before the
\* render phase.
C10_RecapResumeSkips ==
    [][/\ SkipRule
       /\ (BothStepsComplete /\ run.prog = "recap" /\ pc' \in RunningPcs) =>
              IF pc = "first_run" /\ assignment_store = None
              THEN "scan" \in run'.did
              ELSE ScanAssign(run') = ScanAssign(run)]_vars

\* A resumed full-pipeline run with both flags set that has not scanned, has
\* skipped January (done, file there) and has rendered March again (done, file
\* deleted).
C10_Witness ==
    /\ run.prog = "recap"
    /\ pc = "month"
    /\ loop_month > 3
    /\ ~run.loaded_completed
    /\ run.did = {"render"}
    /\ 1 \notin run.invoked
    /\ 3 \in run.compiled
    /\ is_month_complete(checkpoint_data, 1)

(***************************************************************************)
(* The clips of a month: claims                                            *)
(***************************************************************************)

\* C11: while a month is rendered, an item is served from the clip cache only
\* if the clip file it is mapped to exists at the moment of the lookup, also
\* when the clip was deleted after the cache was built.
C11_HitOnlyIfClipExists == \A h \in render.hits : h.existed

\* The item loop of the month under way has ended.
ItemsDone == render.month # 0 /\ render.pos > Len(render.items)

\* The files the month under way has an item for.
ItemPaths == {render.items[i].filepath : i \in 1..Len(render.items)}

\* The files answered from the cache.
HitPaths == {h.filepath : h \in render.hits}

\* regenerate_month 7 has invalidated July and gone through the items of the
\* month: fileB and then fileA, of one date, while the processed folder held a
\* clip of fileA with the prefix of the first item.
JulyScenario ==
    /\ run.prog = "regenerate"
    /\ 7 \in run.months
    /\ render.month = 7
    /\ ItemsDone
    /\ Len(render.items) = 2
    /\ render.items[1].filepath = FilePath(FileB)
    /\ render.items[2].filepath = FilePath(FileA)
    /\ render.items[1].date[1] = render.items[2].date[1]
    /\ output_filename(first_clip_index(7), Basename(FileA)) \in render.listed

\* C12 as stated: in that scenario both fileA and fileB get a fresh render
\* request.
C12_BothRerendered ==
    JulyScenario => {FilePath(FileA), FilePath(FileB)} \subseteq render.requests

\* C12 amended: in that scenario the render of July is invoked, fileB gets a
\* fresh render request exactly if the folder listed no clip of its base name,
\* and fileA gets none: it is answered from the cache.
C12_MissesRerendered ==
    JulyScenario =>
        /\ 7 \in run.invoked
        /\ FilePath(FileB) \in render.requests <=>
               \A clip \in render.listed :
                   original_name(clip) # filename_base(Basename(FileB))
        /\ FilePath(FileA) \notin render.requests
        /\ FilePath(FileA) \in HitPaths

\* July compiled by regenerate_month after fileB was rendered and fileA reused.
C12_Witness ==
    /\ JulyScenario
    /\ pc = "compiled"
    /\ render.requests = {FilePath(FileB)}
    /\ HitPaths = {FilePath(FileA)}
    /\ render.month_clips = <<Some(output_filename(6000, Basename(FileB))),
                              Some(output_filename(6000, Basename(FileA)))>>

\* A full run started on a completed checkpoint has gone through the items of
\* a month.
RerunAfterCompleted ==
    /\ run.prog = "recap"
    /\ run.loaded_completed
    /\ ItemsDone

\* C17: in a full run after a completed run a file gets a fresh render request
\* if and only if the scan found it new or changed; an unchanged file with a
\* clip is reused and a changed file is not answered from the clip cache.
C17_RequestIffNewOrChanged ==
    RerunAfterCompleted =>
        /\ \A path \in ItemPaths :
               path \in render.requests <=> path \in run.files_to_process
        /\ \A path \in HitPaths : path \notin run.files_to_process

\* The facts of the failing input of C17: fileA was overwritten after the
\* completed run, the scan reports it, and its item is answered with the clip
\* of that run.
ChangedFileReused ==
    /\ RerunAfterCompleted
    /\ FileAChanged \in input_folder
    /\ FilePath(FileA) \in run.files_to_process
    /\ FilePath(FileA) \in HitPaths
    /\ FilePath(FileA) \notin render.requests

\* The files of the input folder whose date resolves, to the target year.
Assignable ==
    {FilePath(file) : file \in {f \in input_folder :
                                   /\ f.ext \in ALL_SUPPORTED_FORMATS
                                   /\ MediaDates[f][1] = "return"
                                   /\ ~wrong_year(MediaDates[f][2])}}

\* The full run under way has assigned the files of the folder.
AssignedInRun ==
    /\ run.prog = "recap"
    /\ "assign" \in run.did
    /\ assignment_store # None

\* C19: a file whose date resolution raises is left out of the assignment and
\* every other file is assigned; an item whose process_media_file returns None
\* is left out of the clips of the month, every other item is processed, and
\* the item loop goes on to the compilation of the month, which is marked
\* complete when it succeeds.
C19_ItemFailuresContained ==
    /\ [](/\ AssignedInRun => existing_files(Val(assignment_store)) = Assignable
          /\ render.month # 0 =>
                 /\ \A i \in 1..(render.pos - 1) :
                        render.items[i].filepath \in render.requests \cup HitPaths
                 /\ render.failed \subseteq render.requests
                 /\ \A i \in 1..Len(render.month_clips) : render.month_clips[i] # None
                 /\ Len(render.month_clips) =
                        render.pos - 1 - Cardinality(render.failed)
          /\ (pc = "month" /\ render.month # 0 /\ render.month < loop_month
                  /\ render.month \in run.compiled) =>
                 is_month_complete(checkpoint_data, render.month))
    /\ [][(pc = "items" /\ render.pos <= Len(render.items)) => pc' = "items"]_vars

\* A full run on a folder with fileA, fileB and the unreadable file: the
\* unreadable file is not in the store, the render of fileB returned None,
\* fileA was rendered after it, and July is compiled and marked complete.
C19_Witness ==
    /\ AssignedInRun
    /\ input_folder = {FileA, FileB, FileUnreadable}
    /\ render.month = 7
    /\ render.failed = {FilePath(FileB)}
    /\ render.requests = {FilePath(FileA), FilePath(FileB)}
    /\ Len(render.month_clips) = 1
    /\ pc = "month"
    /\ 7 \in run.compiled
    /\ is_month_complete(checkpoint_data, 7)

(***************************************************************************)
(* The full pipeline on a changed folder: claims                           *)
(***************************************************************************)

\* The files of the folder the scan of the running process reported as new or
\* changed and whose date resolves to a day of the target year.
FoundFiles ==
    {file \in input_folder :
        /\ FilePath(file) \in run.files_to_process
        /\ MediaDates[file][1] = "return"
        /\ ~wrong_year(MediaDates[file][2])}

\* The months these files belong to.
FoundMonths == {Month(MediaDates[file][2]) : file \in FoundFiles}

\* The render phase of the full pipeline is about to start.
RenderPhaseStarts == run.prog = "recap" /\ pc = "load_assignments"

\* C16: when the scan of a full-pipeline run finds new or changed files of
\* month m, m is not in the done-set when the render phase starts, and a run
\* that comes to its end has invoked the month render step for m.
C16_NewFilesForceRerender ==
    /\ RenderPhaseStarts =>
           \A m \in FoundMonths : ~is_month_complete(checkpoint_data, m)
    /\ (run.prog = "recap" /\ run.outcome = "done") =>
           FoundMonths \subseteq run.invoked

\* A full-pipeline run came to its end without rendering the month of a file
\* its scan had found new.
NewFileMonthSkipped ==
    /\ run.prog = "recap"
    /\ run.outcome = "done"
    /\ \E m \in FoundMonths : m \notin run.invoked

\* The render phase of a full-pipeline run ended with the assignment JSON
\* missing or with the final concatenation failing.
FatalRenderError ==
    /\ pc = "exited"
    /\ run.prog = "recap"
    /\ \/ run.stopped_at = "load_assignments" /\ run.error = "FileNotFoundError"
       \/ run.stopped_at = "final" /\ run.error = "CalledProcessError"

\* C18: when the render phase of the full pipeline fails because there is no
\* assignment store or because the final concatenation fails, the checkpoint
\* file holds the checkpoint of the process, with every month compiled and
\* marked in the run, and the exception is raised again.
C18_FatalErrorsFlush ==
    FatalRenderError =>
        /\ Persisted = checkpoint_data
        /\ \A m \in run.compiled : is_month_complete(Persisted, m)
        /\ run.outcome = "failed"

\* The final concatenation failed after a month was compiled and marked in
\* the run.
C18_Witness ==
    /\ FatalRenderError
    /\ run.stopped_at = "final"
    /\ run.compiled # {}
    /\ run.outcome = "failed"

\* The run ended at load_assignments for want of an assignment JSON.
StoreAbsentAtRender ==
    /\ FatalRenderError
    /\ run.stopped_at = "load_assignments"
    /\ assignment_store = None

\* The filepaths of the files of the runs.
PipelinePaths == {FilePath(file) : file \in PipelineFiles}

\* The scan of the running process classified the path as deleted.
DetectedDeleted(path) == path \in run.deleted_files

\* The assignment store holds no record of the path.
Pruned(path) == path \notin existing_files(Buckets)

\* The file is in the input folder (again).
InFolder(path) == \E file \in input_folder : FilePath(file) = path

\* A full-pipeline run has come to its end.
RunCompleted == run.prog = "recap" /\ run.outcome = "done"

\* C15: if runs of the full pipeline keep coming to their end, then whenever a
\* scan classifies a path as deleted, the assignment store later holds no
\* record of the path (or the file is back in the folder).
C15_DeletedPruned ==
    \A path \in PipelinePaths :
        []<>RunCompleted =>
            [](DetectedDeleted(path) => <>(Pruned(path) \/ InFolder(path)))

\* The run that detected the deletion has come to its end and the store still
\* holds the record of the file.
DeletedRecordKept ==
    /\ RunCompleted
    /\ \E path \in run.deleted_files : ~Pruned(path) /\ ~InFolder(path)

(***************************************************************************)
(* The scan cache: claims                                                  *)
(***************************************************************************)

\* The folder is as the last scan found it.
FolderAsScanned == diff_result # None /\ current_files = current_signatures(input_folder)

\* C21: after incremental_media_scan the scan cache file is the dict of the
\* files the scan found, whatever the diff held: no entry of a deleted path,
\* the new signature for every changed path; and as long as the folder is as
\* the scan found it, another scan has nothing to process.
C21_ScanCacheReplaced ==
    /\ [][(diff_result' # diff_result \/ scan_cache' # scan_cache) =>
             /\ scan_cache' = Some(current_signatures(input_folder))
             /\ \A path \in Val(diff_result').deleted : path \notin DOMAIN Val(scan_cache')
             /\ \A path \in Val(diff_result').changed :
                    Val(scan_cache')[path] = current_signatures(input_folder)[path]]_vars
    /\ [](FolderAsScanned =>
             /\ scan_cache = Some(current_signatures(input_folder))
             /\ incremental_media_scan(input_folder, scan_cache).files_to_process = {})

\* The last scan found a new, a changed and a deleted file, and the folder is
\* still as it found it.
C21_Witness ==
    /\ FolderAsScanned
    /\ Val(diff_result).new # {}
    /\ Val(diff_result).changed # {}
    /\ Val(diff_result).deleted # {}

(***************************************************************************)
(* regenerate_month: claims                                                *)
(***************************************************************************)

\* The months in M are without month video and out of the done-set, in memory
\* and on disk, when generate_optimized starts, and a run that comes to its
\* end has handed each of them to generate_month_video.
RequestedMonthsRedone ==
    run.prog = "regenerate" =>
        /\ pc = "load_assignments" =>
               \A m \in run.months :
                   /\ m \notin month_outputs
                   /\ ~is_month_complete(checkpoint_data, m)
                   /\ ~is_month_complete(Persisted, m)
        /\ run.outcome = "done" => run.months \subseteq run.invoked

\* The step hands the month of the loop to generate_month_video.
InvokesLoopMonth == loop_month \in run'.invoked \ run.invoked

OtherMonthRendered ==
    /\ run.prog = "regenerate"
    /\ run.months = {1}
    /\ 3 \in run.compiled

(***************************************************************************)
(* The order of clips and months: claims                                   *)
(***************************************************************************)

\* The items of the month for which a clip was obtained, in loop order.
ObtainedItems ==
    LET obtained(item) == item.filepath \notin render.failed
    IN  SelectSeq(render.items, obtained)

\* The items of one day, in loop order.
ItemsOfDay(day) ==
    LET of_day(item) == RecordDay(item) = day
    IN  SelectSeq(render.items, of_day)

\* The items of the month go by ascending day, those of a day as in its bucket.
ItemsInBucketOrder ==
    /\ \A i, j \in 1..Len(render.items) :
           i < j => ~StrLess(RecordDay(render.items[j]), RecordDay(render.items[i]))
    /\ \A i \in 1..Len(render.items) :
           RecordDay(render.items[i]) \in month_dates(Buckets, render.month)
    /\ \A day \in month_dates(Buckets, render.month) :
           ItemsOfDay(day) = Buckets[day]

\* The list handed to the compilation of the month: the separator, then the
\* working copy of one clip per obtained item, in the order of the items.
MonthListInOrder ==
    /\ Len(render.final_clips) = 1 + Len(ObtainedItems)
    /\ render.final_clips[1] = ProcessedClip(separator_path(render.month))
    /\ \A k \in 1..Len(ObtainedItems) :
           /\ render.final_clips[k + 1] = TempClip(k, Val(render.month_clips[k]))
           /\ original_name(Val(render.month_clips[k]))
                  = filename_base(ObtainedItems[k].filename)

\* The set of the elements of a sequence.
Range(q) == {q[i] : i \in 1..Len(q)}

\* The months of the store without a day with media, while generate_optimized
\* runs.
MonthsWithoutMedia ==
    IF pc \in {"month", "render", "items", "compiled"}
    THEN {m \in 1..NumMonths : month_dates(Buckets, m) = {}}
    ELSE {}

\* C23: the list handed to the compilation of a month with media is the
\* separator followed by one clip per obtained item, by ascending date and
\* within a date in bucket order; the months are taken in the order 1..12 and
\* the final concatenation gets the month videos in ascending month order; a
\* month without media gets no separator and no month video.
C23_RenderSequencing ==
    /\ [](pc = "compiled" => MonthListInOrder /\ ItemsInBucketOrder)
    /\ [](StrictlyAscending(run.month_videos))
    /\ []((pc = "month" /\ loop_month > NumMonths) =>
             Range(run.month_videos) = month_videos(run))
    /\ [][/\ InvokesLoopMonth => \A m \in run.invoked : m < loop_month
          /\ \A m \in MonthsWithoutMedia :
                 /\ separator_path(m) \in processed_folder'
                        => separator_path(m) \in processed_folder
                 /\ m \in month_outputs' => m \in month_outputs]_vars

\* July was compiled of the file of 3 July and the two files of 4 July, all
\* three clips obtained, after January was compiled.
C23_Witness ==
    /\ pc = "compiled"
    /\ render.month = 7
    /\ Len(render.items) = 3
    /\ render.failed = {}
    /\ Len(render.final_clips) = 4
    /\ run.month_videos = <<1>>

(***************************************************************************)
(* The concatenation: claims                                               *)
(***************************************************************************)

\* ffmpeg is in a write that a full pipe does not accept.
ToolBlocked ==
    /\ concat.tool = "running"
    /\ \/ concat.writing = "stdout" /\ concat.stdout = PipeCapacity
       \/ concat.writing = "stderr" /\ concat.stderr = PipeCapacity

\* compile_final_video has returned or raised.
ConcatEnded == concat.main \in {"returned", "raised"}

\* C24: with the main thread reading stdout and a thread draining stderr,
\* ffmpeg is never blocked for ever on a full pipe, compile_final_video gets
\* past process.wait() and ends, and it returns for the exit code 0 and raises
\* for any other.
C24_NoPipeDeadlock ==
    /\ ToolBlocked ~> ~ToolBlocked
    /\ <>ConcatEnded
    /\ [](concat.main \in {"join", "returned", "raised"} => concat.tool = "exited")
    /\ [](concat.main = "returned" => concat.returncode = 0)
    /\ [](concat.main = "raised" => concat.returncode # 0)

\* ffmpeg is blocked on the full stderr pipe while the main thread waits for
\* a line of the empty stdout pipe.
C24_Witness ==
    /\ ToolBlocked
    /\ concat.writing = "stderr"
    /\ concat.main = "readline"
    /\ concat.stdout = 0
    /\ concat.out_left > 0

\* ---------------------------------------------------------------------------
\* C25: every clip that process_media_file wrote for a file with stem S, under
\* any index, is in the dictionary of get_processed_clips under the key S (the
\* key generate_month_video looks up), also when S holds underscores; and no
\* file whose name starts with "separator_" is a value of the dictionary.
HasSeparatorPrefix(filename) ==
    Len(filename) >= Len(SeparatorPrefix)
        /\ SubSeq(filename, 1, Len(SeparatorPrefix)) = SeparatorPrefix

KeyedByStem(index, filename) ==
    /\ filename_base(filename) \in DOMAIN render.cache
    /\ original_name(output_filename(index, filename)) = filename_base(filename)

NoSeparatorCached == \A key \in DOMAIN render.cache : ~HasSeparatorPrefix(render.cache[key])

C25_KeyRoundTrip ==
    /\ \A index \in KeyIndexes, filename \in KeyFileNames :
          output_filename(index, filename) \in render.listed => KeyedByStem(index, filename)
    /\ NoSeparatorCached

\* The stem holds the text ".mp4": the clip of a.mp4.mov is listed and the
\* dictionary has no key "a.mp4".
StemWithMp4NotKeyed ==
    /\ output_filename(6001, <<"a", ".", "m", "p", "4", ".", "m", "o", "v">>) \in render.listed
    /\ <<"a", ".", "m", "p", "4">> \notin DOMAIN render.cache
    /\ <<"a">> \in DOMAIN render.cache

\* All other stems make the round trip, the separators stay out.
HoldsMp4(stem) ==
    \E i \in 1..(Len(stem) - 3) : SubSeq(stem, i, i + 3) = <<".", "m", "p", "4">>

RoundTripOfOtherStems ==
    /\ \A index \in KeyIndexes, filename \in KeyFileNames :
          /\ output_filename(index, filename) \in render.listed
          /\ ~HoldsMp4(filename_base(filename))
          => KeyedByStem(index, filename)
    /\ NoSeparatorCached

UnderscoreStemKeyed ==
    /\ output_filename(11000, <<"a", "_", ".", "j", "p", "g">>) \in render.listed
    /\ separator_path(1) \in render.listed
    /\ DOMAIN render.cache = {<<"a", "_">>}

\* ---------------------------------------------------------------------------
\* C26: a month enters the done-set only in the step after its month video was
\* compiled without error by the run under way, and only if the store has
\* media of that month; so a month whose compilation raised and a month
\* without media are not marked.
MonthsOf(data) == {data.months_processed[i] : i \in DOMAIN data.months_processed}

DoneMonths(file) == MonthsOf(load_checkpoint(file))

C26_MarkedAfterCompile ==
    [][\A m \in DoneMonths(checkpoint_file') \ DoneMonths(checkpoint_file) :
              /\ pc = "compiled"
              /\ loop_month = m
              /\ m \in run.compiled
              /\ m \in month_outputs
              /\ run.error = "none"
              /\ month_dates(Val(assignment_store), m) # {}]_vars

\* July was compiled and marked by this run, January was handed to
\* generate_month_video, had no media and is not marked.
C26_Witness ==
    /\ 7 \in run.compiled
    /\ 7 \in DoneMonths(checkpoint_file)
    /\ 1 \in run.invoked
    /\ 1 \notin DoneMonths(checkpoint_file)

\* The compilation of July raised and July is not in the done-set.
CompileRaisedMonthUnmarked ==
    /\ pc = "exited"
    /\ run.stopped_at = "items"
    /\ run.error = "CalledProcessError"
    /\ loop_month = 7
    /\ 7 \notin DoneMonths(checkpoint_file)

\* ---------------------------------------------------------------------------
\* The completed flag of the checkpoint file rises in this step.
FlagRises ==
    /\ ~is_complete(load_checkpoint(checkpoint_file))
    /\ is_complete(load_checkpoint(checkpoint_file'))

\* The step is mark_all_complete of a full-pipeline run whose
\* generate_optimized went through all months and the final concatenation
\* without an error.
MarkAllAfterRender ==
    /\ pc = "mark_all"
    /\ run.prog = "recap"
    /\ run.error = "none"
    /\ loop_month > NumMonths
    /\ month_videos(run) # {}

\* The flag as it was when the render phase of the run started: the full
\* pipeline has cleared a completed checkpoint before, regenerate_month has
\* loaded the file as it was.
FlagBeforeRender == IF run.prog = "recap" THEN FALSE ELSE run.loaded_completed

\* The run has ended and had reached its render phase.
EndedAfterRenderStart ==
    /\ pc = "exited"
    /\ \/ run.outcome = "done"
       \/ run.stopped_at \in {"load_assignments", "month", "render", "compiled", "final",
                              "mark_all", "cleanup"}

FlagAtRenderStart ==
    pc = "load_assignments" => is_complete(Persisted) = FlagBeforeRender

\* C27: the completed flag becomes true only through mark_all_complete of the
\* full pipeline after generate_optimized returned without error in that run;
\* after an interrupted or failed run and after any regenerate_month run the
\* flag has the value it had before the render phase of the run started.
C27_FlagOnlyByMarkAll ==
    /\ [][FlagRises => MarkAllAfterRender]_vars
    /\ [](FlagAtRenderStart)
    /\ []((EndedAfterRenderStart /\ (run.outcome # "done" \/ run.prog = "regenerate"))
              => is_complete(Persisted) = FlagBeforeRender)

\* C27, amended: the same for the runs interrupted or failed before
\* mark_all_complete was reached; a run stopped after it, during the cleanup
\* and the summary, leaves the flag set.
C27_FlagKeptUnlessMarked ==
    /\ [][FlagRises => MarkAllAfterRender]_vars
    /\ [](FlagAtRenderStart)
    /\ []((/\ EndedAfterRenderStart
           /\ run.outcome # "done" \/ run.prog = "regenerate"
           /\ run.stopped_at # "cleanup")
              => is_complete(Persisted) = FlagBeforeRender)
    /\ []((pc = "exited" /\ run.stopped_at = "cleanup") => is_complete(Persisted))

\* A full-pipeline run interrupted while a month was rendered, the flag not
\* set, after an earlier run had come to its end and set it.
C27_Witness ==
    /\ RecapStopped
    /\ run.stopped_at = "render"
    /\ run.loaded_completed
    /\ ~is_complete(Persisted)

\* A regenerate_month run that came to its end on a completed checkpoint.
RegenKeepsFlag ==
    /\ pc = "exited"
    /\ run.prog = "regenerate"
    /\ run.outcome = "done"
    /\ run.compiled # {}
    /\ is_complete(Persisted)

\* A full-pipeline run interrupted during the cleanup: the flag is set.
StoppedAfterMarkAll ==
    /\ RecapStopped
    /\ run.stopped_at = "cleanup"
    /\ is_complete(Persisted)

\* ---------------------------------------------------------------------------
\* The files of the current scan snapshot (the signature store) whose date
\* resolves to a day of the target year.
SnapshotFiles ==
    {file \in PipelineFiles :
        /\ FilePath(file) \in DOMAIN load_previous_scan(scan_cache)
        /\ MediaDates[file][1] = "return"
        /\ ~wrong_year(MediaDates[file][2])}

\* C28: whenever a run of the full pipeline begins its render phase, every
\* file of the current scan snapshot whose resolved year is the target year
\* has a record in the assignment store, also after interruptions.
C28_NoDetectedFileLost ==
    RenderPhaseStarts =>
        \A file \in SnapshotFiles : FilePath(file) \in existing_files(Buckets)

\* A resumed run starts its render phase on a store without a record of a file
\* that is in the folder and in the snapshot; its own scan found nothing new.
FileLostAcrossInterruption ==
    /\ RenderPhaseStarts
    /\ "scan" \in run.did
    /\ run.files_to_process = {}
    /\ assignment_store # None
    /\ \E file \in SnapshotFiles \cap input_folder :
          FilePath(file) \notin existing_files(Buckets)

\* ---------------------------------------------------------------------------
\* The item the loop of generate_month_video is at, and the clip the cache
\* holds under the base name of the item.
ItemAtPos == render.items[render.pos]
CachedClip == render.cache[filename_base(ItemAtPos.filename)]

\* This step answers the item from the cache with a clip that is in the folder.
CacheHitStep ==
    /\ pc = "items"
    /\ render.pos <= Len(render.items)
    /\ render'.pos = render.pos + 1
    /\ filename_base(ItemAtPos.filename) \in DOMAIN render.cache
    /\ CachedClip \in DOMAIN clip_content

\* C29: whenever generate_month_video reuses a cached clip for a media record,
\* the clip was rendered from the file of the record, also when two files of
\* the folder have one base name and differ in the extension only.
C29_HitReturnsOwnClip ==
    [][CacheHitStep => clip_content[CachedClip].source = ItemAtPos.filepath]_vars

\* Both files of one base name were answered from the cache with one clip.
TwinsShareClip ==
    /\ pc = "items"
    /\ render.pos > Len(render.items)
    /\ HitPaths = {FilePath(FileA), FilePath(FileATwin)}
    /\ Len(render.month_clips) = 2
    /\ render.month_clips[1] = render.month_clips[2]

\* ---------------------------------------------------------------------------
\* This step is the preparation and compilation of the month video.
CompileStep ==
    /\ pc = "items"
    /\ render.pos > Len(render.items)
    /\ pc' # "items"

\* No clip file of the processed folder is normalized or captioned.
ClipsAsRendered ==
    \A name \in DOMAIN clip_content :
        clip_content[name] = rendered_clip(clip_content[name].source)

\* C30: the preparation of the month video normalizes and captions working
\* copies only: it leaves the processed folder and the content of its clip
\* files as they are, so that no clip of the folder, reused or fresh, is ever
\* normalized or carries a caption.
C30_CachedClipsUnchanged ==
    /\ [][CompileStep =>
              /\ processed_folder' = processed_folder
              /\ clip_content' = clip_content]_vars
    /\ [](ClipsAsRendered)
    /\ [](DOMAIN clip_content = {name \in processed_folder : is_clip_name(name)})

\* A full run after a completed run has compiled July with the clip of the
\* video fileB reused from the earlier run and the clip of fileA rendered
\* anew; both clip files are as process_media_file wrote them.
C30_Witness ==
    /\ run.prog = "recap"
    /\ run.loaded_completed
    /\ pc = "compiled"
    /\ loop_month = 7
    /\ FilePath(FileB) \in HitPaths
    /\ FilePath(FileA) \in render.requests
    /\ Len(render.final_clips) = 3
    /\ ClipsAsRendered

====
